---------------------------- MODULE Spec2Model ----------------------------
(***************************************************************************)
(* Model of the ESRF C208/P201 counter/timer character device driver       *)
(* (driver/ct2/linux/driver/src/ct2.c and its headers): the per-session    *)
(* file operations, the exclusive-access arbiter, the Scaler Values FIFO   *)
(* mapping count, the register file access tables and register transfers.  *)
(***************************************************************************)
EXTENDS Integers, Sequences, FiniteSets, TLC

(***************************************************************************)
(* Bounds of the model.                                                    *)
(***************************************************************************)
\* number of open file descriptions (threads) that use one Device
MaxSessions == 2
\* number of simultaneously live mappings (VMAs) of the Scaler Values FIFO
MaxVmas == 2
\* largest interrupt notification queue capacity a session asks for
MaxInqLen == 3
\* number of interrupts the Device raises
MaxIrqs == 3

Sessions == 1 .. MaxSessions

\* the null pointer (dev->dccs.blessed, an unowned mutex)
NULL == 0

\* ct2_inm_init(): dev->inm.mutex is free; isr is the place of the interrupt
\* handler between its read of ctrl_it and ct2_post_in(), reg the value read
ct2_inm_mutex_init == [owner |-> NULL, isr |-> "none", reg |-> 0]

\* ct2_regs_mutex_init(): dev->regs.mutex is free, no register transfer is
\* in progress.  mutex is the owner of the spinlock, xfers the transfers
\* that have started and not ended, each with its kind and its context.
ct2_regs_mutex_init == [mutex |-> NULL, xfers |-> {}]

\* no call of enable_device_interrupts() is followed in steps.  pc is the
\* position of the call, by its session, arg the ioctl argument, nonblock
\* O_NONBLOCK, ptr the local variable fbh, alloc whether the block was
\* allocated, kept whether it is the storage of the FIFO when the critical
\* section is left, deleted how often it was handed to
\* ct2_in_fifo_bhead_delete()
edint_none ==
    [pc |-> "none", by |-> NULL, arg |-> 0, nonblock |-> FALSE,
     ptr |-> "NULL", alloc |-> FALSE, kept |-> FALSE, deleted |-> 0]

Min(a, b) == IF a < b THEN a ELSE b
Max(a, b) == IF a < b THEN b ELSE a

(***************************************************************************)
(* Register files: struct ct2_r1 and struct ct2_r2, one entry per member   *)
(* with its size in registers, in declaration order.                       *)
(***************************************************************************)
ct2_r1 ==
    << <<"com_gene", 1>>, <<"ctrl_gene", 1>>, <<"_0x08_0x0b", 1>>,
       <<"niveau_out", 1>>, <<"adapt_50", 1>>, <<"soft_out", 1>>,
       <<"rd_in_out", 1>>, <<"rd_ctrl_cmpt", 1>>, <<"cmd_dma", 1>>,
       <<"ctrl_fifo_dma", 1>>, <<"source_it", 2>>, <<"ctrl_it", 1>>,
       <<"_0x34_0x37", 1>>, <<"_0x38_0x3f", 2>>, <<"rd_cmpt", 12>>,
       <<"rd_latch_cmpt", 12>>, <<"_0xa0_0xfb", 23>>, <<"_0xfc_0xff", 1>> >>

ct2_r2 ==
    << <<"sel_filtre_input", 2>>, <<"_0x08_0x13", 3>>, <<"_0x14_0x1f", 3>>,
       <<"sel_latch", 6>>, <<"conf_cmpt", 12>>, <<"soft_enable_disable", 1>>,
       <<"soft_start_stop", 1>>, <<"soft_latch", 1>>, <<"compare_cmpt", 12>>,
       <<"_0xa4_0xff", 23>> >>

ct2_r(spc) == IF spc = 1 THEN ct2_r1 ELSE ct2_r2

\* members of the unions: <<enclosing member, offset inside it>>
ct2_union_member(reg) ==
    CASE reg = "c208_temps"              -> <<"_0x08_0x0b", 0>>
      [] reg = "p201_niveau_in"          -> <<"_0x34_0x37", 0>>
      [] reg = "p201_test_reg"           -> <<"_0xfc_0xff", 0>>
      [] reg = "c208_sel_filtre_output"  -> <<"_0x08_0x13", 0>>
      [] reg = "p201_sel_filtre_output"  -> <<"_0x08_0x13", 2>>
      [] reg = "c208_sel_source_output"  -> <<"_0x14_0x1f", 0>>
      [] reg = "p201_sel_source_output"  -> <<"_0x14_0x1f", 2>>
      [] OTHER                           -> <<reg, 0>>

RECURSIVE SumSizes(_, _)
SumSizes(layout, n) ==
    IF n = 0 THEN 0 ELSE SumSizes(layout, n - 1) + layout[n][2]

\* ct2_spc_size(spc): sizeof(struct ct2_r<spc>) / sizeof(ct2_reg_t)
ct2_spc_size(spc) == SumSizes(ct2_r(spc), Len(ct2_r(spc)))

\* ct2_reg_offset(spc, reg[idx]): offsetof() in units of ct2_reg_t
ct2_reg_offset(spc, reg, idx) ==
    LET m == ct2_union_member(reg)
        k == CHOOSE i \in 1 .. Len(ct2_r(spc)) : ct2_r(spc)[i][1] = m[1]
    IN  SumSizes(ct2_r(spc), k - 1) + m[2] + idx

CT2_RW_R1_OFF == 0
CT2_RW_R2_OFF == 64
CT2_RW_R1_LEN == CT2_RW_R2_OFF - CT2_RW_R1_OFF
CT2_RW_R2_LEN == 64
CT2_RW_RMAP_LEN == CT2_RW_R2_OFF + CT2_RW_R2_LEN
\* sizeof(ct2_reg_t), ct2_reg_t being uint32_t
CT2_REG_SIZE == 4

Variants == {"c208", "p201"}

(***************************************************************************)
(* Register file access tables (LUTs).                                     *)
(***************************************************************************)
\* ct2_reg_dist_t is uint8_t
U8(x) == x % 256

LutIndex == 0 .. 63

\* clear_ct2_reg_lut(): memset(lut, 0, sizeof(lut))
clear_ct2_reg_lut == [r \in LutIndex |-> 0]

\* variant: the distance to the end of the range, the end excluded
define_lut_entry_excl(lut, lower, upper) ==
    [lut EXCEPT ![lower] = U8(upper - lower)]

\* one iteration of the loop of define_lut_entries()
define_lut_entry(lut, lower, upper) ==
    [lut EXCEPT ![lower] = U8((upper - lower) + 1)]

\* the statement after the loop of define_lut_entries()
define_lut_last(lut, upper) == [lut EXCEPT ![upper] = 1]

\* define_lut_entries(lut, lower, upper)
RECURSIVE define_lut_entries(_, _, _)
define_lut_entries(lut, lower, upper) ==
    IF lower < upper
    THEN define_lut_entries(define_lut_entry(lut, lower, upper), lower + 1, upper)
    ELSE define_lut_last(lut, upper)

\* The define_ct2_reg_lut_range() calls of init_ct2_register_range_luts(),
\* in program order: <<lower register, index, upper register, index>>.
lut_ranges(ct2, spc, rw, enable_test_reg) ==
    CASE ct2 = "c208" /\ spc = 1 /\ rw = "rd" ->
            << <<"com_gene", 0, "source_it", 1>>,
               <<"rd_cmpt", 0, "rd_latch_cmpt", 11>> >>
      [] ct2 = "c208" /\ spc = 1 /\ rw = "wr" ->
            << <<"com_gene", 0, "com_gene", 0>>,
               <<"niveau_out", 0, "soft_out", 0>>,
               <<"cmd_dma", 0, "cmd_dma", 0>>,
               <<"source_it", 0, "source_it", 1>> >>
      [] ct2 = "c208" /\ spc = 2 /\ rw = "rd" ->
            << <<"sel_filtre_input", 0, "conf_cmpt", 11>>,
               <<"compare_cmpt", 0, "compare_cmpt", 11>> >>
      [] ct2 = "c208" /\ spc = 2 /\ rw = "wr" ->
            << <<"sel_filtre_input", 0, "compare_cmpt", 11>> >>
      [] ct2 = "p201" /\ spc = 1 /\ rw = "rd" ->
            << <<"com_gene", 0, "ctrl_gene", 0>>,
               <<"niveau_out", 0, "source_it", 1>>,
               <<"p201_niveau_in", 0, "p201_niveau_in", 0>>,
               <<"rd_cmpt", 0, "rd_latch_cmpt", 11>> >>
            \o (IF enable_test_reg
                THEN << <<"p201_test_reg", 0, "p201_test_reg", 0>> >>
                ELSE << >>)
      [] ct2 = "p201" /\ spc = 1 /\ rw = "wr" ->
            << <<"com_gene", 0, "com_gene", 0>>,
               <<"niveau_out", 0, "soft_out", 0>>,
               <<"cmd_dma", 0, "cmd_dma", 0>>,
               <<"source_it", 0, "source_it", 1>>,
               <<"p201_niveau_in", 0, "p201_niveau_in", 0>> >>
            \o (IF enable_test_reg
                THEN << <<"p201_test_reg", 0, "p201_test_reg", 0>> >>
                ELSE << >>)
      [] ct2 = "p201" /\ spc = 2 /\ rw = "rd" ->
            << <<"sel_filtre_input", 0, "sel_filtre_input", 1>>,
               <<"p201_sel_filtre_output", 0, "p201_sel_filtre_output", 0>>,
               <<"p201_sel_source_output", 0, "conf_cmpt", 11>>,
               <<"compare_cmpt", 0, "compare_cmpt", 11>> >>
      [] ct2 = "p201" /\ spc = 2 /\ rw = "wr" ->
            << <<"sel_filtre_input", 0, "sel_filtre_input", 1>>,
               <<"p201_sel_filtre_output", 0, "p201_sel_filtre_output", 0>>,
               <<"p201_sel_source_output", 0, "compare_cmpt", 11>> >>

\* define_ct2_reg_lut_range(ct2, spc, rw, lower, upper): the two offsets
range_lower(spc, rg) == ct2_reg_offset(spc, rg[1], rg[2])
range_upper(spc, rg) == ct2_reg_offset(spc, rg[3], rg[4])

\* init_ct2_register_range_luts(): clear, then define the first n ranges
RECURSIVE define_ct2_reg_lut_ranges(_, _, _)
define_ct2_reg_lut_ranges(spc, ranges, n) ==
    IF n = 0
    THEN clear_ct2_reg_lut
    ELSE define_lut_entries(define_ct2_reg_lut_ranges(spc, ranges, n - 1),
                            range_lower(spc, ranges[n]),
                            range_upper(spc, ranges[n]))

\* the tables in the order in which init_ct2_register_range_luts() clears
\* and defines them: <<ct2, spc, rw>>
lut_order ==
    << <<"c208", 1, "rd">>, <<"c208", 1, "wr">>,
       <<"c208", 2, "rd">>, <<"c208", 2, "wr">>,
       <<"p201", 1, "rd">>, <<"p201", 1, "wr">>,
       <<"p201", 2, "rd">>, <<"p201", 2, "wr">> >>

\* the eight tables, for either value of the module parameter
\* enable_p201_test_reg
ct2_reg_lut ==
    [ct2 \in Variants, spc \in {1, 2}, rw \in {"rd", "wr"}, t \in BOOLEAN |->
        define_ct2_reg_lut_ranges(spc, lut_ranges(ct2, spc, rw, t),
                                  Len(lut_ranges(ct2, spc, rw, t)))]


(***************************************************************************)
(* State of one Device (struct ct2), of its DCCs (struct ct2_dcc) and of   *)
(* the kernel objects the driver works with.                               *)
(***************************************************************************)
VARIABLES
    variant,                \* C208 or P201 (dev->pci_dev->device)
    enable_p201_test_reg,   \* module parameter
    req_intrs,              \* dev->req_intrs: the Device has an interrupt pin
    init_status,            \* dev->init_status
    irq_requested,          \* request_irq() done and not yet free_irq()
    inm_fifo,               \* dev->inm.fifo
    dccs_list,              \* dev->dccs.list, the DCCs of the open sessions
    dcc_flags,              \* dcc->inm.flags & CT2_DCC_INM_FLAGS_RCVS_INTR
    dcc_in,                 \* dcc->inm.u.in, the IN object of each DCC
    inm_task,               \* dev->inm.task and the thread that runs it
    irq,                    \* the interrupt handler: calls, last notice and rv
    blessed,                \* dev->dccs.blessed
    blessed_fmc,            \* dev->dccs.blessed_fmc
    vmas,                   \* live VMAs whose vm_ops is ct2_vm_ops
    dccs_mutex,             \* owner of dev->dccs.mutex
    last,                   \* the operation completed last and its outcome
    reg_lut_init,           \* progress of init_ct2_register_range_luts()
    probe,                  \* ct2_probe() and ct2_remove(): what they did
    regs,                   \* dev->regs.mutex and the transfers in progress
    edint,                  \* enable_device_interrupts(): the call in steps
    inm_mutex,              \* dev->inm.mutex and the interrupt handler in steps
    file_f_pos              \* file->f_pos of the open file of each session

vars == << variant, enable_p201_test_reg, req_intrs, init_status, irq_requested,
           inm_fifo, dccs_list, dcc_flags, dcc_in, inm_task, irq, blessed,
           blessed_fmc, vmas, dccs_mutex, last, reg_lut_init, probe, regs,
           edint, inm_mutex, file_f_pos >>

\* fixed once the module is loaded and the Device is probed
dev_consts == << variant, enable_p201_test_reg, req_intrs, reg_lut_init,
                probe, regs, edint, inm_mutex, file_f_pos >>
\* interrupt notification: the IN objects of the DCCs, the work and the
\* interrupt handler
inm_vars   == << dcc_in, inm_task, irq >>
intr_vars  == << init_status, irq_requested, inm_fifo, dcc_flags, inm_vars >>
arb_vars   == << blessed, blessed_fmc, vmas >>

\* kernel: PAGE_SIZE (1 << PAGE_SHIFT)
PAGE_SIZE == 4096
\* pci_resource_len(pci_dev, CT2_PCI_BAR_FIFO), the extent of the FIFO
FifoResourceLen == 2 * PAGE_SIZE

\* window of the RW map that reads the Scaler Values FIFO, in registers
CT2_RW_FIFO_OFF == 128
CT2_RW_FIFO_LEN == 2048
CT2_RW_FIFO_START == CT2_RW_FIFO_OFF * CT2_REG_SIZE
CT2_RW_FIFO_END == CT2_RW_FIFO_START + CT2_RW_FIFO_LEN * CT2_REG_SIZE

\* CT2_KMOD_PARAM_DEFAULT_INQ_LENGTH, default of module parameter inq_length
inq_length == 32

\* no register transfer
NoXfer == [kind |-> "none", spc |-> 0, off |-> 0, n |-> 0]

\* outcome of a completed file operation: err is "OK" or the errno name,
\* rv the value returned on success, xfer the register transfer performed
Result(op, s, err, rv, off, cnt, xfer) ==
    [op |-> op, dcc |-> s, err |-> err, rv |-> rv,
     off |-> off, cnt |-> cnt, xfer |-> xfer]

Ret(op, s, err) == Result(op, s, err, 0, 0, 0, NoXfer)

\* the elements of a list
Elems(l) == {l[i] : i \in 1 .. Len(l)}

\* variant: the element stays linked
hfl_dl_list_keep_elem(l, e) == l

\* hfl_dl_list_remove_elem(): unlink the element if it is in the list
hfl_dl_list_remove_elem(l, e) == SelectSeq(l, LAMBDA x : x # e)

\* hfl_dl_list_append_elem(): list_add_tail()
hfl_dl_list_append_elem(l, e) == Append(l, e)

\* hfl_in_interval_ix(type, x, l, u)
hfl_in_interval_ix(x, l, u) == (l <= x) /\ (x < u)

(***************************************************************************)
(* The exclusive-access arbiter (ct2-dev.h).                               *)
(***************************************************************************)
\* variant: exclusive access is never observed
ct2_observes_xaccess_never == FALSE

\* ct2_observes_xaccess()
ct2_observes_xaccess == blessed # NULL

\* variant: the mmap count is not looked at
ct2_is_mmapped_never == FALSE

\* ct2_is_mmapped()
ct2_is_mmapped == blessed_fmc > 0

\* variant: a DCC also passes when no DCC has exclusive access
ct2_dcc_has_xaccess_or_none(dcc) == (blessed = NULL) \/ (blessed = dcc)

\* ct2_dcc_has_xaccess()
ct2_dcc_has_xaccess(dcc) == blessed = dcc

\* variant: every DCC may change the Device state
ct2_dcc_may_change_dev_state_always(dcc) == TRUE

\* ct2_dcc_may_change_dev_state()
ct2_dcc_may_change_dev_state(dcc) ==
    (blessed = NULL) \/ ct2_dcc_has_xaccess(dcc)

(***************************************************************************)
(* The interrupt notification FIFO (hzdr/fwf/linux/fifo).                  *)
(***************************************************************************)
\* ct2_in_fifo_truncate(): the FIFO without entry reservoir; ea is the
\* entry array of the FESU, max_index its last index, w and r are the
\* offsets of the write end and of the read end
fifo_truncate ==
    [capacity |-> 0, fillpoint |-> 0, max_index |-> 0, ea |-> << >>,
     w |-> 0, r |-> 0]

\* ct2_dcc_new(): the IN object of a new DCC, stamped with the time of its
\* construction
ct2_dcc_new == [ctrl_it |-> 0, stamp |-> "new"]

\* ct2_in_fifo_bhead_new(flags, size): number of entries of the new FESU,
\* never less than the two entries that struct fifo_bhead declares
fifo_bhead_new(size) == Max(size, 2)

\* ct2_in_fifo_replace_reservoir(fifo, fbh): the FIFO takes the FESU as
\* its (empty) entry reservoir
fifo_replace_reservoir(fbh_size) ==
    [capacity |-> fbh_size, fillpoint |-> 0, max_index |-> fbh_size - 1,
     ea |-> [i \in 1 .. fbh_size |-> 0], w |-> 0, r |-> 0]

ct2_inm_fifo_capacity == inm_fifo.capacity

(***************************************************************************)
(* Device discovery and removal: ct2_probe() and ct2_remove().             *)
(***************************************************************************)
\* enum ct2_init_status, in the order of its enumerators
ct2_init_status ==
    << "DEV_INIT_ALLOC_CT2_STRUCT", "DEV_INIT_PCI_DEV_ENABLE",
       "DEV_INIT_AMCC_REGS_REGION", "DEV_INIT_CTRL_REGS_1_REGION",
       "DEV_INIT_CTRL_REGS_2_REGION", "DEV_INIT_FIFO_REGION",
       "DEV_INIT_ALLOC_CHRDEV", "DEV_INIT_CLASS_DEV", "DEV_INIT_ADD_CDEV",
       "DEV_INIT_DEV_LIST_ADD", "DEV_INIT_REQ_INTR" >>

\* the position of an enumerator, 0 for a Device that does not exist
init_status_index(st) ==
    IF st = "none" THEN 0
    ELSE CHOOSE i \in 1 .. Len(ct2_init_status) : ct2_init_status[i] = st

\* a sequence in reverse order
Reverse(q) == [i \in 1 .. Len(q) |-> q[Len(q) + 1 - i]]

\* a step of ct2_probe() that can fail: the resource the call acquires,
\* the init_status recorded once it succeeded, the value of rv when the
\* step fails, whether it is compiled only with CT2_MAP_IOPORTS_TO_IOMEM
ProbeCall(call, acquires, status, rv, iomem) ==
    [call |-> call, acquires |-> acquires, status |-> status, rv |-> rv,
     iomem |-> iomem]

\* ct2_probe(): its fallible steps in program order.  "ERR" is the
\* non-zero value that the failed call returned into rv; the failure
\* branch of ct2_list_append() assigns nothing to rv, which holds the 0 of
\* cdev_add()
ct2_probe_calls ==
    << ProbeCall("pci_device_id", "none", "none", "EINVAL", FALSE),
       ProbeCall("kmalloc", "ct2_struct", "DEV_INIT_ALLOC_CT2_STRUCT",
                 "ENOMEM", FALSE),
       ProbeCall("pci_enable_device", "pci_device",
                 "DEV_INIT_PCI_DEV_ENABLE", "ERR", FALSE),
       ProbeCall("check_pci_io_region(AMCC)", "none", "none", "ENXIO", FALSE),
       ProbeCall("pci_request_region(AMCC)", "region_amcc",
                 "DEV_INIT_AMCC_REGS_REGION", "ERR", FALSE),
       ProbeCall("load_fpga_bitstream", "none", "none", "ERR", FALSE),
       ProbeCall("check_pci_io_region(IO_R1)", "none", "none", "ENXIO", FALSE),
       ProbeCall("pci_request_region(IO_R1)", "region_r1",
                 "DEV_INIT_CTRL_REGS_1_REGION", "ERR", FALSE),
       ProbeCall("pci_iomap(IO_R1)", "iomap_r1", "none", "ENOMEM", TRUE),
       ProbeCall("check_pci_io_region(IO_R2)", "none", "none", "ENXIO", FALSE),
       ProbeCall("pci_request_region(IO_R2)", "region_r2",
                 "DEV_INIT_CTRL_REGS_2_REGION", "ERR", FALSE),
       ProbeCall("pci_iomap(IO_R2)", "iomap_r2", "none", "ENOMEM", TRUE),
       ProbeCall("check_pci_io_region(FIFO)", "none", "none", "ENXIO", FALSE),
       ProbeCall("pci_request_region(FIFO)", "region_fifo",
                 "DEV_INIT_FIFO_REGION", "ERR", FALSE),
       ProbeCall("pci_iomap(FIFO)", "iomap_fifo", "none", "ENOMEM", FALSE),
       ProbeCall("__get_free_pages", "fifo_buffer", "none", "ENOMEM", FALSE),
       ProbeCall("check_cub", "none", "none", "ERR", FALSE),
       ProbeCall("alloc_chrdev_region", "chrdev_region",
                 "DEV_INIT_ALLOC_CHRDEV", "ERR", FALSE),
       ProbeCall("device_create", "class_dev", "DEV_INIT_CLASS_DEV",
                 "ENOMEM", FALSE),
       ProbeCall("cdev_add", "cdev", "DEV_INIT_ADD_CDEV", "ERR", FALSE),
       ProbeCall("ct2_list_append", "dev_list", "DEV_INIT_DEV_LIST_ADD",
                 "OK", FALSE) >>

\* the steps that the build has
probe_calls(iomem) ==
    SelectSeq(ct2_probe_calls, LAMBDA c : iomem \/ ~c.iomem)

\* the steps whose failure is an input: ct2_list_append() is not one,
\* it fails only if hfl_dl_list_elem_is_initialised() is false of the
\* list_elem that ct2_probe() initialised after kmalloc()
ProbeFailures(iomem) ==
    { probe_calls(iomem)[i].call : i \in 1 .. Len(probe_calls(iomem)) }
        \ { "ct2_list_append" }

\* what device_create() returns when ct2_probe() goes on after it: the
\* class device or, on error, an ERR_PTR() value; ct2_probe() takes every
\* value but NULL for the class device
ClassDevices == { "device", "ERR_PTR" }

\* what kmalloc() left in dev->fifo_buffer, which ct2_probe() does not
\* initialise: NULL or anything else
JunkPointers == { "NULL", "junk" }

\* the steps that succeeded before the step that fails ("none": all)
probe_calls_made(iomem, fail) ==
    LET cs == probe_calls(iomem)
        n  == IF fail = "none" THEN Len(cs)
              ELSE (CHOOSE i \in 1 .. Len(cs) : cs[i].call = fail) - 1
    IN  SubSeq(cs, 1, n)

\* whether a step is among them
probe_made(made, call) ==
    \E i \in 1 .. Len(made) : made[i].call = call

\* the resources acquired by the steps made, in the order of acquisition
probe_acquired(made, class) ==
    LET acq == SelectSeq(made, LAMBDA c :
                   /\ c.acquires # "none"
                   /\ (c.call = "device_create") => (class = "device"))
    IN  [i \in 1 .. Len(acq) |-> acq[i].acquires]

\* dev->init_status after the steps made
probe_init_status(made) ==
    LET marks == SelectSeq(made, LAMBDA c : c.status # "none")
    IN  IF marks = << >> THEN "none" ELSE marks[Len(marks)].status

\* the members of struct ct2 that ct2_remove() looks at, after the steps
\* made: ct2_regs_init() sets r1, r2 and fifo to null
probe_dev(iomem, made, class, junk) ==
    [r1 |-> IF probe_made(made, "pci_iomap(IO_R1)")
            THEN "iomap_r1" ELSE "CT2_REGS_NULL_ADDR",
     r2 |-> IF probe_made(made, "pci_iomap(IO_R2)")
            THEN "iomap_r2" ELSE "CT2_REGS_NULL_ADDR",
     fifo |-> IF probe_made(made, "pci_iomap(FIFO)")
              THEN "iomap_fifo" ELSE "NULL",
     fifo_buffer |-> IF probe_made(made, "__get_free_pages")
                     THEN "fifo_buffer" ELSE junk,
     class |-> IF probe_made(made, "device_create") THEN class ELSE "NULL"]

\* ct2_remove(): case DEV_INIT_FIFO_REGION
ct2_remove_fifo_region(d) ==
    (IF d.fifo_buffer # "NULL" THEN << "fifo_buffer" >> ELSE << >>)
        \o (IF d.fifo # "NULL" THEN << "iomap_fifo" >> ELSE << >>)
        \o << "region_fifo" >>

\* ct2_remove(): the releases of one case label of the switch
ct2_remove_case(st, d, iomem) ==
    CASE st = "DEV_INIT_REQ_INTR" -> << "irq", "inm_fifo" >>
      [] st = "DEV_INIT_DEV_LIST_ADD" -> << "dev_list" >>
      [] st = "DEV_INIT_ADD_CDEV" -> << "cdev" >>
      [] st = "DEV_INIT_CLASS_DEV" -> << "class_dev" >>
      [] st = "DEV_INIT_ALLOC_CHRDEV" -> << "chrdev_region" >>
      [] st = "DEV_INIT_FIFO_REGION" -> ct2_remove_fifo_region(d)
      [] st = "DEV_INIT_CTRL_REGS_2_REGION" ->
            (IF iomem /\ d.r2 # "CT2_REGS_NULL_ADDR"
             THEN << "iomap_r2" >> ELSE << >>) \o << "region_r2" >>
      [] st = "DEV_INIT_CTRL_REGS_1_REGION" ->
            (IF iomem /\ d.r1 # "CT2_REGS_NULL_ADDR"
             THEN << "iomap_r1" >> ELSE << >>) \o << "region_r1" >>
      [] st = "DEV_INIT_AMCC_REGS_REGION" -> << "region_amcc" >>
      [] st = "DEV_INIT_PCI_DEV_ENABLE" -> << "pci_device" >>
      [] st = "DEV_INIT_ALLOC_CT2_STRUCT" -> << "ct2_struct" >>

\* variant: the switch leaves after one case label
ct2_remove_switch_break(i, d, iomem) ==
    IF i = 0 THEN << >> ELSE ct2_remove_case(ct2_init_status[i], d, iomem)

\* ct2_remove(): the switch on dev->init_status entered at the label of
\* index i, every case falling through to the next
RECURSIVE ct2_remove_switch(_, _, _)
ct2_remove_switch(i, d, iomem) ==
    IF i = 0 THEN << >>
    ELSE ct2_remove_case(ct2_init_status[i], d, iomem)
            \o ct2_remove_switch(i - 1, d, iomem)

\* no Device bound to the PCI device: pci_get_drvdata() is NULL
probe_unbound(iomem) ==
    [pc |-> "unbound", rv |-> "OK", iomem |-> iomem, drvdata |-> FALSE,
     acq |-> << >>, rel |-> << >>, at |-> "none",
     dev |-> probe_dev(iomem, << >>, "NULL", "NULL")]

\* ct2_probe() has returned: the steps before the one that fails were
\* made; on a failure ct2_remove() has run, which does nothing before
\* pci_set_drvdata(pci_dev, dev)
probe_returned(iomem, fail, class, junk) ==
    LET made == probe_calls_made(iomem, fail)
        dev  == probe_dev(iomem, made, class, junk)
        st   == probe_init_status(made)
        set  == probe_made(made, "kmalloc")
        call == CHOOSE c \in Elems(probe_calls(iomem)) : c.call = fail
    IN  IF fail = "none"
        THEN [pc |-> "bound", rv |-> "OK", iomem |-> iomem, drvdata |-> TRUE,
              acq |-> probe_acquired(made, class), rel |-> << >>,
              at |-> "none", dev |-> dev]
        ELSE [pc |-> "failed", rv |-> call.rv, iomem |-> iomem,
              drvdata |-> FALSE,
              acq |-> probe_acquired(made, class),
              rel |-> IF set
                      THEN ct2_remove_switch(init_status_index(st), dev, iomem)
                      ELSE << >>,
              at |-> IF set THEN st ELSE "none", dev |-> dev]

(***************************************************************************)
(* Initial state: the Device after a successful ct2_probe(), no session.   *)
(***************************************************************************)
\* the Device after a successful ct2_probe()
DevInit ==
    /\ init_status = "DEV_INIT_DEV_LIST_ADD"
    /\ probe = probe_returned(FALSE, "none", "device", "NULL")
    /\ regs = ct2_regs_mutex_init
    /\ edint = edint_none
    /\ inm_mutex = ct2_inm_mutex_init
    /\ file_f_pos = [s \in Sessions |-> 0]
    /\ irq_requested = FALSE
    /\ inm_fifo = fifo_truncate
    /\ dcc_flags = [s \in Sessions |-> FALSE]
    /\ dcc_in = [s \in Sessions |-> ct2_dcc_new]
    /\ inm_task = [pending |-> FALSE, pc |-> "idle", notice |-> 0,
                   received |-> FALSE]
    /\ irq = [count |-> 0, notice |-> 0, rv |-> "IRQ_NONE"]
    /\ blessed = NULL
    /\ blessed_fmc = 0
    /\ vmas = 0
    /\ dccs_mutex = NULL
    /\ last = Ret("none", NULL, "OK")

\* init_ct2_register_range_luts() has returned: k tables are defined, the
\* n ranges of the last one included, lut is the table defined last
reg_lut_init_done ==
    LET k == Len(lut_order)
        id == lut_order[k]
        ranges == lut_ranges(id[1], id[2], id[3], enable_p201_test_reg)
        upper == range_upper(id[2], ranges[Len(ranges)])
    IN  [k |-> k, n |-> Len(ranges), busy |-> FALSE,
         lower |-> upper, upper |-> upper,
         lut |-> ct2_reg_lut[id[1], id[2], id[3], enable_p201_test_reg]]

\* a P201 with an interrupt pin, the module parameters have their default
\* values, no session
Init ==
    /\ variant = "p201"
    /\ enable_p201_test_reg = FALSE
    /\ req_intrs = TRUE
    /\ DevInit
    /\ dccs_list = << >>
    /\ reg_lut_init = reg_lut_init_done

(***************************************************************************)
(* Module initialisation: init_ct2_register_range_luts() step by step.     *)
(***************************************************************************)
\* the ranges of the table that is being defined
lut_init_ranges ==
    LET id == lut_order[reg_lut_init.k]
    IN  lut_ranges(id[1], id[2], id[3], enable_p201_test_reg)

lut_init_unchanged ==
    UNCHANGED << variant, enable_p201_test_reg, req_intrs, probe, regs,
                 edint, inm_mutex, file_f_pos,
                 intr_vars, arb_vars, dccs_list, dccs_mutex, last >>

\* clear_ct2_reg_lut(ct2, spc, rw) for the next table
clear_ct2_reg_lut_step ==
    /\ ~reg_lut_init.busy
    /\ reg_lut_init.k < Len(lut_order)
    /\ reg_lut_init.k > 0 => reg_lut_init.n = Len(lut_init_ranges)
    /\ reg_lut_init' = [reg_lut_init EXCEPT !.k = @ + 1, !.n = 0,
                                            !.lut = clear_ct2_reg_lut]
    /\ lut_init_unchanged

\* define_ct2_reg_lut_range(ct2, spc, rw, lower, upper): the call of
\* define_lut_entries() for the next range of the table
define_ct2_reg_lut_range ==
    /\ ~reg_lut_init.busy
    /\ reg_lut_init.k > 0
    /\ reg_lut_init.n < Len(lut_init_ranges)
    /\ LET spc == lut_order[reg_lut_init.k][2]
           rg == lut_init_ranges[reg_lut_init.n + 1]
       IN  reg_lut_init' = [reg_lut_init EXCEPT !.busy = TRUE,
                                                !.lower = range_lower(spc, rg),
                                                !.upper = range_upper(spc, rg)]
    /\ lut_init_unchanged

\* define_lut_entries(): one iteration of the loop
define_lut_entries_loop ==
    /\ reg_lut_init.busy
    /\ reg_lut_init.lower < reg_lut_init.upper
    /\ reg_lut_init' =
          [reg_lut_init EXCEPT
              !.lut = define_lut_entry(@, reg_lut_init.lower, reg_lut_init.upper),
              !.lower = @ + 1]
    /\ lut_init_unchanged

\* define_lut_entries(): the loop is left, the last entry is set
define_lut_entries_return ==
    /\ reg_lut_init.busy
    /\ ~(reg_lut_init.lower < reg_lut_init.upper)
    /\ reg_lut_init' =
          [reg_lut_init EXCEPT
              !.lut = define_lut_last(@, reg_lut_init.upper),
              !.busy = FALSE,
              !.n = @ + 1]
    /\ lut_init_unchanged

\* the module is being loaded: static storage is zero, no table is defined
LutInit ==
    /\ variant \in Variants
    /\ enable_p201_test_reg \in BOOLEAN
    /\ req_intrs = TRUE
    /\ DevInit
    /\ dccs_list = << >>
    /\ reg_lut_init = [k |-> 0, n |-> 0, busy |-> FALSE, lower |-> 0,
                       upper |-> 0, lut |-> clear_ct2_reg_lut]

LutNext ==
    \/ clear_ct2_reg_lut_step
    \/ define_ct2_reg_lut_range
    \/ define_lut_entries_loop
    \/ define_lut_entries_return

SpecLut == LutInit /\ [][LutNext]_vars

(***************************************************************************)
(* dev->dccs.mutex.  A thread that has acquired the mutex runs the         *)
(* critical section of its handler in the next step and releases it.       *)
(***************************************************************************)
\* mutex_lock() and mutex_lock_interruptible() returning 0,
\* mutex_trylock() returning 1
dccs_lock(t) ==
    /\ dccs_mutex = NULL
    /\ dccs_mutex' = t
    /\ UNCHANGED << dev_consts, intr_vars, arb_vars, dccs_list, last >>

InterruptibleOps ==
    {"open", "close", "read", "read_fifo", "write", "devrst", "edint",
     "ddint", "qxa", "lxa"}

\* mutex_lock_interruptible() returning -EINTR: the csint branch of
\* ct2_dccm_sri() / ct2_dccm_swi(), taken while another thread owns the mutex
dccs_lock_interrupted(s, op) ==
    /\ dccs_mutex \notin {NULL, s}
    /\ IF op = "open" THEN s \notin Elems(dccs_list) ELSE s \in Elems(dccs_list)
    /\ last' = Ret(op, s, "EINTR")
    /\ UNCHANGED << dev_consts, intr_vars, arb_vars, dccs_list, dccs_mutex >>

(***************************************************************************)
(* open(2) and close(2).                                                   *)
(***************************************************************************)
\* ct2_open(): ct2_dcc_new() failed
ct2_open_nomem(s, nonblock) ==
    /\ s \notin Elems(dccs_list)
    /\ dccs_mutex # s
    /\ last' = Ret("open", s, IF nonblock THEN "EAGAIN" ELSE "ENOMEM")
    /\ UNCHANGED << dev_consts, intr_vars, arb_vars, dccs_list, dccs_mutex >>

\* ct2_open(): the critical section
\* variant: a new DCC never receives interrupts
ct2_open_en_intr_never == FALSE

\* ct2_open(): whether ct2_dcc_en_intr() is called for the new DCC
ct2_open_en_intr == init_status = "DEV_INIT_REQ_INTR"

ct2_open(s) ==
    /\ dccs_mutex = s
    /\ s \notin Elems(dccs_list)
    /\ dcc_flags' = [dcc_flags EXCEPT ![s] = ct2_open_en_intr]
    /\ dcc_in' = [dcc_in EXCEPT ![s] = ct2_dcc_new]
    /\ dccs_list' = hfl_dl_list_append_elem(dccs_list, s)
    /\ dccs_mutex' = NULL
    /\ last' = Ret("open", s, "OK")
    /\ UNCHANGED << dev_consts, init_status, irq_requested, inm_fifo, inm_task,
                    irq, arb_vars >>

\* variant: the release of the holder leaves dev->dccs.blessed as it is
ct2_close_revoke_xaccess_never(s) == blessed

\* ct2_close(): ct2_revoke_xaccess() if the DCC has exclusive access
ct2_close_revoke_xaccess(s) ==
    IF ct2_dcc_has_xaccess(s) THEN NULL ELSE blessed

\* ct2_close(): the critical section and ct2_dcc_delete()
ct2_close(s) ==
    /\ dccs_mutex = s
    /\ s \in Elems(dccs_list)
    /\ dccs_mutex' = NULL
    /\ IF ct2_dcc_has_xaccess(s) /\ ct2_is_mmapped
       THEN /\ last' = Ret("close", s, "EBUSY")
            /\ UNCHANGED << blessed, dccs_list, dcc_flags, dcc_in >>
       ELSE /\ blessed' = ct2_close_revoke_xaccess(s)
            /\ dccs_list' = hfl_dl_list_remove_elem(dccs_list, s)
            /\ dcc_flags' = [dcc_flags EXCEPT ![s] = FALSE]
            /\ dcc_in' = [dcc_in EXCEPT ![s] = ct2_dcc_new]
            /\ last' = Ret("close", s, "OK")
    /\ UNCHANGED << dev_consts, init_status, irq_requested, inm_fifo, inm_task,
                    irq, blessed_fmc, vmas >>

(***************************************************************************)
(* ioctl(2): CT2_IOC_QXA and CT2_IOC_LXA.                                  *)
(***************************************************************************)
\* grant_exclusive_access()
grant_exclusive_access(s) ==
    /\ dccs_mutex = s
    /\ s \in Elems(dccs_list)
    /\ dccs_mutex' = NULL
    /\ IF ~ct2_dcc_may_change_dev_state(s)
       THEN /\ last' = Ret("qxa", s, "EACCES")
            /\ UNCHANGED blessed
       ELSE /\ blessed' = s
            /\ last' = Ret("qxa", s, "OK")
    /\ UNCHANGED << dev_consts, intr_vars, dccs_list, blessed_fmc, vmas >>

\* revoke_exclusive_access()
revoke_exclusive_access(s) ==
    /\ dccs_mutex = s
    /\ s \in Elems(dccs_list)
    /\ dccs_mutex' = NULL
    /\ IF ct2_observes_xaccess
       THEN IF ~ct2_dcc_has_xaccess(s)
            THEN /\ last' = Ret("lxa", s, "EACCES")
                 /\ UNCHANGED blessed
            ELSE IF ct2_is_mmapped
                 THEN /\ last' = Ret("lxa", s, "EBUSY")
                      /\ UNCHANGED blessed
                 ELSE /\ blessed' = NULL
                      /\ last' = Ret("lxa", s, "OK")
       ELSE /\ last' = Ret("lxa", s, "OK")
            /\ UNCHANGED blessed
    /\ UNCHANGED << dev_consts, intr_vars, dccs_list, blessed_fmc, vmas >>


(***************************************************************************)
(* mmap(2) of the Scaler Values FIFO and the VMA operations.               *)
(***************************************************************************)
\* ct2_mmap(): the argument checks that precede the critical section
ct2_mmap_einval(s, wx, map_offset, map_length) ==
    /\ s \in Elems(dccs_list)
    /\ dccs_mutex # s
    /\ wx \/ (map_offset + map_length) > FifoResourceLen
    /\ last' = Result("mmap", s, "EINVAL", 0, map_offset, map_length, NoXfer)
    /\ UNCHANGED << dev_consts, intr_vars, arb_vars, dccs_list, dccs_mutex >>

\* ct2_mmap(): mutex_trylock() failed, the csrfs branch of ct2_dccm_srt()
ct2_mmap_eagain(s, map_offset, map_length) ==
    /\ s \in Elems(dccs_list)
    /\ dccs_mutex \notin {NULL, s}
    /\ ~((map_offset + map_length) > FifoResourceLen)
    /\ last' = Result("mmap", s, "EAGAIN", 0, map_offset, map_length, NoXfer)
    /\ UNCHANGED << dev_consts, intr_vars, arb_vars, dccs_list, dccs_mutex >>

\* ct2_mmap(): mutex_trylock() succeeded; the critical section.
\* remap_ok is the outcome of io_remap_pfn_range().
ct2_mmap(s, map_offset, map_length, remap_ok) ==
    /\ dccs_mutex = s
    /\ s \in Elems(dccs_list)
    /\ ~((map_offset + map_length) > FifoResourceLen)
    /\ (ct2_dcc_has_xaccess(s) /\ remap_ok) => vmas < MaxVmas
    /\ dccs_mutex' = NULL
    /\ IF ~ct2_dcc_has_xaccess(s)
       THEN /\ last' = Result("mmap", s, "EACCES", 0, map_offset, map_length, NoXfer)
            /\ UNCHANGED << blessed_fmc, vmas >>
       ELSE IF ~remap_ok
            THEN /\ last' = Result("mmap", s, "EAGAIN", 0, map_offset, map_length, NoXfer)
                 /\ UNCHANGED << blessed_fmc, vmas >>
            ELSE /\ blessed_fmc' = blessed_fmc + 1
                 /\ vmas' = vmas + 1
                 /\ last' = Result("mmap", s, "OK", 0, map_offset, map_length, NoXfer)
    /\ UNCHANGED << dev_consts, intr_vars, blessed, dccs_list >>

\* ct2_vma_ops_open(): the kernel has duplicated a VMA of the FIFO
\* (fork(2), a split of the mapping); run by thread t
ct2_vma_ops_open(t) ==
    /\ dccs_mutex = t
    /\ vmas > 0
    /\ vmas < MaxVmas
    /\ blessed_fmc' = blessed_fmc + 1
    /\ vmas' = vmas + 1
    /\ dccs_mutex' = NULL
    /\ last' = Ret("vma_open", t, "OK")
    /\ UNCHANGED << dev_consts, intr_vars, blessed, dccs_list >>

\* ct2_vma_ops_close(): the kernel removes a VMA of the FIFO
\* (munmap(2), exit of the process); run by thread t
ct2_vma_ops_close(t) ==
    /\ dccs_mutex = t
    /\ vmas > 0
    /\ blessed_fmc' = blessed_fmc - 1
    /\ vmas' = vmas - 1
    /\ dccs_mutex' = NULL
    /\ last' = Ret("vma_close", t, "OK")
    /\ UNCHANGED << dev_consts, intr_vars, blessed, dccs_list >>

(***************************************************************************)
(* ioctl(2): CT2_IOC_DEVRST, CT2_IOC_EDINT and CT2_IOC_DDINT.              *)
(***************************************************************************)
\* reset_device(): the register writes of a Device reset
reset_device == [kind |-> "reset", spc |-> 0, off |-> 0, n |-> 0]

\* variant: a reset is never refused because of the interrupts
devrst_busy_never == FALSE

\* ct2_ioctl(), case CT2_IOC_DEVRST: interrupts are enabled
devrst_busy == init_status = "DEV_INIT_REQ_INTR"

\* ct2_ioctl(), case CT2_IOC_DEVRST
ct2_ioctl_devrst(s) ==
    /\ dccs_mutex = s
    /\ s \in Elems(dccs_list)
    /\ dccs_mutex' = NULL
    /\ last' = IF ~ct2_dcc_may_change_dev_state(s)
               THEN Ret("devrst", s, "EACCES")
               ELSE IF devrst_busy
                    THEN Ret("devrst", s, "EBUSY")
                    ELSE Result("devrst", s, "OK", 0, 0, 0, reset_device)
    /\ UNCHANGED << dev_consts, intr_vars, arb_vars, dccs_list >>

\* variant: the flag is set, never cleared, for each DCC in the list
ct2_dccs_for_each_en_intr(on) ==
    [s \in Sessions |-> IF s \in Elems(dccs_list) THEN TRUE ELSE dcc_flags[s]]

\* ct2_dcc_en_intr() / ct2_dcc_dis_intr() for each DCC in the list
ct2_dccs_for_each_set_intr(on) ==
    [s \in Sessions |-> IF s \in Elems(dccs_list) THEN on ELSE dcc_flags[s]]

\* variant: the FIFO keeps the storage when the interrupt is not obtained
ct2_inm_fifo_init_reset_kept(fbh) ==
    fifo_replace_reservoir(fbh)

\* enable_device_interrupts(): ct2_inm_fifo_init(dev, fbh) followed, after
\* the failure of ct2_enable_interrupts(), by ct2_inm_fifo_reset(dev)
ct2_inm_fifo_init_reset(fbh) ==
    fifo_truncate

\* enable_device_interrupts(); arg is the ioctl argument, alloc_ok the
\* outcome of ct2_in_fifo_bhead_new(), irq_rv what request_irq() returns
enable_device_interrupts_body(s, arg, alloc_ok, nonblock, irq_rv) ==
    LET inq_len == IF arg = 0 THEN inq_length ELSE arg
    IN
    /\ dccs_mutex = s
    /\ s \in Elems(dccs_list)
    /\ dccs_mutex' = NULL
    /\ IF ~ct2_dcc_may_change_dev_state(s)
       THEN /\ last' = Result("edint", s, "EACCES", 0, 0, arg, NoXfer)
            /\ UNCHANGED intr_vars
       ELSE IF init_status = "DEV_INIT_REQ_INTR"
       THEN /\ last' = Result("edint", s,
                              IF ct2_inm_fifo_capacity # inq_len
                              THEN "EBUSY" ELSE "OK", 0, 0, arg, NoXfer)
            /\ UNCHANGED intr_vars
       ELSE IF ~alloc_ok
       THEN /\ last' = Result("edint", s,
                              IF nonblock THEN "EAGAIN" ELSE "ENOMEM",
                              0, 0, arg, NoXfer)
            /\ UNCHANGED intr_vars
       ELSE IF ~req_intrs \/ irq_rv # "OK"
       THEN /\ last' = Result("edint", s,
                              IF ~req_intrs THEN "ENXIO" ELSE irq_rv,
                              0, 0, arg, NoXfer)
            /\ inm_fifo' = ct2_inm_fifo_init_reset(fifo_bhead_new(inq_len))
            /\ UNCHANGED << init_status, irq_requested, dcc_flags, inm_vars >>
       ELSE /\ inm_fifo' = fifo_replace_reservoir(fifo_bhead_new(inq_len))
            /\ irq_requested' = TRUE
            /\ init_status' = "DEV_INIT_REQ_INTR"
            /\ dcc_flags' = ct2_dccs_for_each_set_intr(TRUE)
            /\ UNCHANGED inm_vars
            /\ last' = Result("edint", s, "OK", 0, 0, arg, NoXfer)

\* enable_device_interrupts() from the allocation to the return, the
\* critical section included
enable_device_interrupts(s, arg, alloc_ok, nonblock, irq_rv) ==
    /\ enable_device_interrupts_body(s, arg, alloc_ok, nonblock, irq_rv)
    /\ UNCHANGED << dev_consts, arb_vars, dccs_list >>

\* variant: disable leaves init_status as it is
disable_init_status_kept == "DEV_INIT_REQ_INTR"

\* disable_device_interrupts(): "dev->init_status = DEV_INIT_DEV_LIST_ADD"
disable_init_status == "DEV_INIT_DEV_LIST_ADD"

\* disable_device_interrupts()
disable_device_interrupts(s) ==
    /\ dccs_mutex = s
    /\ s \in Elems(dccs_list)
    /\ dccs_mutex' = NULL
    /\ IF ~ct2_dcc_may_change_dev_state(s)
       THEN /\ last' = Ret("ddint", s, "EACCES")
            /\ UNCHANGED intr_vars
       ELSE IF init_status # "DEV_INIT_REQ_INTR"
       THEN /\ last' = Ret("ddint", s, "OK")
            /\ UNCHANGED intr_vars
       ELSE /\ irq_requested' = FALSE
            /\ inm_fifo' = fifo_truncate
            /\ init_status' = disable_init_status
            /\ dcc_flags' = ct2_dccs_for_each_set_intr(FALSE)
            /\ UNCHANGED inm_vars
            /\ last' = Ret("ddint", s, "OK")
    /\ UNCHANGED << dev_consts, arb_vars, dccs_list >>


(***************************************************************************)
(* Interrupt notification: the interrupt handler, the work that fans the   *)
(* notifications out to the DCCs, CT2_IOC_ACKINT and poll(2).              *)
(***************************************************************************)
\* bitwise AND and OR of two register values
RECURSIVE BitAnd(_, _)
BitAnd(a, b) ==
    IF a = 0 \/ b = 0 THEN 0
    ELSE (a % 2) * (b % 2) + 2 * BitAnd(a \div 2, b \div 2)

RECURSIVE BitOr(_, _)
BitOr(a, b) ==
    IF a = 0 THEN b
    ELSE IF b = 0 THEN a
    ELSE Max(a % 2, b % 2) + 2 * BitOr(a \div 2, b \div 2)

\* C208_CTRL_IT_UMSK = 0x0effffff, P201_CTRL_IT_UMSK = 0x0efff3ff
C208_CTRL_IT_UMSK == 2^28 - 1 - 2^24
P201_CTRL_IT_UMSK == 2^28 - 1 - 2^24 - 2^11 - 2^10

\* dev->ctrl_it_mask
ctrl_it_mask ==
    IF variant = "c208" THEN C208_CTRL_IT_UMSK ELSE P201_CTRL_IT_UMSK

\* the thread that runs dev->inm.task
inm_worker == 0 - 1

\* fifo_ptr_advance(): the offset after the one given, in a FESU that is
\* its own successor
fifo_ptr_advance(fifo, off) ==
    IF off < fifo.max_index THEN off + 1 ELSE 0

\* variant: the entry is stored whether or not the FIFO is full
fifo_append_always(fifo, datum) ==
    [fifo EXCEPT !.ea[fifo.w + 1] = datum,
                 !.fillpoint = @ + 1,
                 !.w = fifo_ptr_advance(fifo, @)]

\* fifo_append_nf(): nothing is done if the FIFO is full
fifo_append_nf(fifo, datum) ==
    IF fifo.fillpoint >= fifo.capacity
    THEN fifo
    ELSE [fifo EXCEPT !.ea[fifo.w + 1] = datum,
                      !.fillpoint = @ + 1,
                      !.w = fifo_ptr_advance(fifo, @)]

\* fifo_consume_ne(): the FIFO after the call; nothing is done if it is empty
fifo_consume_ne(fifo) ==
    IF fifo.fillpoint <= 0
    THEN fifo
    ELSE [fifo EXCEPT !.fillpoint = @ - 1,
                      !.r = fifo_ptr_advance(fifo, @)]

\* fifo_consume_ne(): the datum after the call, the entry at the read end
\* unless the FIFO is empty
fifo_consume_ne_datum(fifo, datum) ==
    IF fifo.fillpoint <= 0 THEN datum ELSE fifo.ea[fifo.r + 1]

\* variant: the interrupt is claimed whatever the masked value is
irqreturn_handled(notice) ==
    "IRQ_HANDLED"

\* process_device_interrupts(): the return value for the masked value of
\* ctrl_it
irqreturn(notice) ==
    IF notice = 0 THEN "IRQ_NONE" ELSE "IRQ_HANDLED"

\* variant: the notice is appended and the work is not scheduled
ct2_post_in_schedule_work_never(task) == task

\* ct2_post_in(): schedule_work(&(dev->inm.task))
ct2_post_in_schedule_work(task) ==
    [task EXCEPT !.pending = TRUE]

\* process_device_interrupts(): the interrupt handler; reg is the value
\* that the read of ctrl_it returns.  ct2_post_in() appends the notice and
\* schedules the work.
process_device_interrupts_body(reg) ==
    LET notice == BitAnd(reg, ctrl_it_mask)
    IN
    /\ irq_requested
    /\ irq.count < MaxIrqs
    /\ irq' = [count |-> irq.count + 1, notice |-> notice,
               rv |-> irqreturn(notice)]
    /\ IF notice = 0
       THEN /\ UNCHANGED << inm_fifo, inm_task >>
       ELSE
            /\ inm_fifo' = fifo_append_nf(inm_fifo, notice)
            /\ inm_task' = ct2_post_in_schedule_work(inm_task)

\* process_device_interrupts() with the read of ctrl_it taken as one step
process_device_interrupts(reg) ==
    /\ process_device_interrupts_body(reg)
    /\ UNCHANGED << dev_consts, init_status, irq_requested, dcc_flags, dcc_in,
                    arb_vars, dccs_list, dccs_mutex, last >>

\* the workqueue starts distribute_interrupt_notifications()
distribute_interrupt_notifications ==
    /\ inm_task.pending
    /\ inm_task.pc = "idle"
    /\ inm_task' = [pending |-> FALSE, pc |-> "fillpoint", notice |-> 0,
                    received |-> FALSE]
    /\ UNCHANGED << dev_consts, init_status, irq_requested, inm_fifo, dcc_flags,
                    dcc_in, irq, arb_vars, dccs_list, dccs_mutex, last >>

\* distribute_interrupt_notifications(): ct2_inm_fifo_fillpoint(dev) > 0
ct2_inm_fifo_fillpoint_body ==
    /\ inm_task.pc = "fillpoint"
    /\ inm_task' = [inm_task EXCEPT !.pc = IF inm_fifo.fillpoint > 0
                                           THEN "receive" ELSE "idle"]
    /\ UNCHANGED << init_status, irq_requested, inm_fifo, dcc_flags,
                    dcc_in, irq, arb_vars, dccs_list, dccs_mutex, last >>

\* ct2_inm_fifo_fillpoint() as one step
ct2_inm_fifo_fillpoint ==
    /\ ct2_inm_fifo_fillpoint_body
    /\ UNCHANGED dev_consts

\* distribute_interrupt_notifications(): ct2_receive_in(dev, &notice);
\* received is what fifo_consume_ne() returns, which the caller does not
\* look at
ct2_receive_in_body ==
    /\ inm_task.pc = "receive"
    /\ inm_fifo' = fifo_consume_ne(inm_fifo)
    /\ inm_task' = [inm_task EXCEPT
                        !.notice = fifo_consume_ne_datum(inm_fifo, @),
                        !.received = inm_fifo.fillpoint > 0,
                        !.pc = "dccs_sr"]
    /\ UNCHANGED << init_status, irq_requested, dcc_flags, dcc_in,
                    irq, arb_vars, dccs_list, dccs_mutex, last >>

\* ct2_receive_in() as one step
ct2_receive_in ==
    /\ ct2_receive_in_body
    /\ UNCHANGED dev_consts

\* distribute_interrupt_notifications(): ct2_dccs_sr(), the mutex is taken
ct2_dccs_sr_worker ==
    /\ inm_task.pc = "dccs_sr"
    /\ dccs_mutex = NULL
    /\ dccs_mutex' = inm_worker
    /\ inm_task' = [inm_task EXCEPT !.pc = "post_in"]
    /\ UNCHANGED << dev_consts, init_status, irq_requested, inm_fifo, dcc_flags,
                    dcc_in, irq, arb_vars, dccs_list, last >>

\* ct2_dcc_post_in(): the IN object of the DCC after the delivery
ct2_dcc_post_in(dcc, in) ==
    [ctrl_it |-> BitOr(dcc_in[dcc].ctrl_it, in), stamp |-> "in"]

\* distribute_interrupt_notifications(): ct2_dcc_post_in() for each DCC
\* in the list, then the mutex is released
ct2_dccs_for_each_post_in ==
    /\ inm_task.pc = "post_in"
    /\ dccs_mutex = inm_worker
    /\ dcc_in' = [s \in Sessions |->
                    IF s \in Elems(dccs_list)
                    THEN ct2_dcc_post_in(s, inm_task.notice)
                    ELSE dcc_in[s]]
    /\ dccs_mutex' = NULL
    /\ inm_task' = [inm_task EXCEPT !.pc = "fillpoint"]
    /\ UNCHANGED << dev_consts, init_status, irq_requested, inm_fifo, dcc_flags,
                    irq, arb_vars, dccs_list, last >>

\* variant: the IN object is stamped, its bits are kept
ct2_dcc_mark_in_stamp_only(dcc) ==
    [ctrl_it |-> dcc_in[dcc].ctrl_it, stamp |-> "read"]

\* ct2_dcc_mark_in_as_read(): the IN object of the DCC after an
\* acknowledgement, stamped with the time of the request
ct2_dcc_mark_in_as_read(dcc) ==
    [ctrl_it |-> 0, stamp |-> "read"]

\* acknowledge_interrupt(); efault is the outcome of copy_to_user()
acknowledge_interrupt(s, efault) ==
    /\ dccs_mutex = s
    /\ s \in Elems(dccs_list)
    /\ dccs_mutex' = NULL
    /\ IF efault
       THEN /\ last' = Ret("ackint", s, "EFAULT")
            /\ UNCHANGED dcc_in
       ELSE /\ last' = Result("ackint", s, "OK", 0, 0, 0,
                              [kind |-> "in", ctrl_it |-> dcc_in[s].ctrl_it,
                               stamp |-> dcc_in[s].stamp])
            /\ dcc_in' = [dcc_in EXCEPT ![s] = ct2_dcc_mark_in_as_read(s)]
    /\ UNCHANGED << dev_consts, init_status, irq_requested, inm_fifo, dcc_flags,
                    inm_task, irq, arb_vars, dccs_list >>

\* the bits of the poll(2) events
POLLIN == 1
POLLHUP == 16
POLLRDNORM == 64

\* variant: POLLHUP is never reported
ct2_poll_rv_no_hup(dcc) ==
    IF dcc_in[dcc].ctrl_it # 0 THEN POLLIN + POLLRDNORM ELSE 0

\* ct2_poll(): the events reported for the DCC
ct2_poll_rv(dcc) ==
    (IF dcc_in[dcc].ctrl_it # 0 THEN POLLIN + POLLRDNORM ELSE 0)
        + (IF ~dcc_flags[dcc] THEN POLLHUP ELSE 0)

\* ct2_poll(): the critical section
ct2_poll(s) ==
    /\ dccs_mutex = s
    /\ s \in Elems(dccs_list)
    /\ dccs_mutex' = NULL
    /\ last' = Result("poll", s, "OK", ct2_poll_rv(s), 0, 0, NoXfer)
    /\ UNCHANGED << dev_consts, intr_vars, arb_vars, dccs_list >>


(***************************************************************************)
(* read(2) and write(2) on the RW map.  Offsets and counts are the byte    *)
(* values the system call hands to the driver.                             *)
(***************************************************************************)
\* variant: bit 6 of the offset selects register file 1
offset_to_baddr_lut_off_swapped(offset) ==
    LET rw_rmap_offset == U8(offset \div CT2_REG_SIZE) % 128
        r2_offset_flag == (rw_rmap_offset \div 64) % 2
    IN  [rw_rmap_offset |-> rw_rmap_offset,
         spc |-> IF r2_offset_flag # 0 THEN 1 ELSE 2,
         off |-> rw_rmap_offset - 64 * r2_offset_flag]

\* offset_to_baddr_lut_off(): the offset into the normalised RW map, the
\* register file (baddr, lut) and the offset inside that file
offset_to_baddr_lut_off(offset) ==
    LET rw_rmap_offset == U8(offset \div CT2_REG_SIZE) % 128
        r2_offset_flag == (rw_rmap_offset \div 64) % 2
    IN  [rw_rmap_offset |-> rw_rmap_offset,
         spc |-> IF r2_offset_flag # 0 THEN 2 ELSE 1,
         off |-> rw_rmap_offset - 64 * r2_offset_flag]

\* min_t(ct2_reg_dist_t, a, b): both operands are cast to uint8_t
min_t_u8(a, b) == Min(U8(a), U8(b))

\* dev->r1_rd_lut, dev->r2_rd_lut, dev->r1_wr_lut, dev->r2_wr_lut
dev_lut(spc, rw) == ct2_reg_lut[variant, spc, rw, enable_p201_test_reg]

\* variant: the upper end of the RW map is not tested
rw_einval_lower(offset) ==
    offset < 0

\* einval of ct2_read() / ct2_write()
rw_einval(offset) ==
    ~hfl_in_interval_ix(offset, 0, CT2_RW_RMAP_LEN * CT2_REG_SIZE)

\* ct2_read(): the request is handed to ct2_read_fifo()
read_is_fifo(offset, count) ==
    /\ hfl_in_interval_ix(offset, CT2_RW_FIFO_START, CT2_RW_FIFO_END)
    /\ hfl_in_interval_ix(offset + count - 1, CT2_RW_FIFO_START, CT2_RW_FIFO_END)

\* ct2_read(): rlut[roff]
read_lut_entry(offset) ==
    LET o == offset_to_baddr_lut_off(offset) IN dev_lut(o.spc, "rd")[o.off]

\* variant: the count is not truncated to the run of the table
read_rcount_untruncated(offset, count) ==
    U8(count \div CT2_REG_SIZE)

\* ct2_read(): rcount
read_rcount(offset, count) ==
    min_t_u8(read_lut_entry(offset), count \div CT2_REG_SIZE)

\* ct2_reg_offset(1, ctrl_fifo_dma) and ct2_reg_offset(1, p201_test_reg)
ctrl_fifo_dma_offset == ct2_reg_offset(1, "ctrl_fifo_dma", 0)
p201_test_reg_offset == ct2_reg_offset(1, "p201_test_reg", 0)

\* variant: only ctrl_fifo_dma is looked for
rrange_contains_ctrl_fifo_dma(offset, count) ==
    LET o == offset_to_baddr_lut_off(offset).rw_rmap_offset
        rcount == read_rcount(offset, count)
    IN  hfl_in_interval_ix(ctrl_fifo_dma_offset, U8(o), U8(o + rcount))

\* ct2_read(): rrange_contains_R
rrange_contains_R(offset, count) ==
    LET o == offset_to_baddr_lut_off(offset).rw_rmap_offset
        rcount == read_rcount(offset, count)
    IN  \/ hfl_in_interval_ix(ctrl_fifo_dma_offset, U8(o), U8(o + rcount))
        \/ hfl_in_interval_ix(p201_test_reg_offset, U8(o), U8(o + rcount))

\* ct2_read(): outcome of a request that is not for the FIFO window;
\* efault is the outcome of copy_to_user()
ct2_read_result(dcc, offset, count, efault) ==
    LET o == offset_to_baddr_lut_off(offset)
        rcount == read_rcount(offset, count)
        bcount == rcount * CT2_REG_SIZE
        xfer == [kind |-> "readv", spc |-> o.spc, off |-> o.off, n |-> rcount]
    IN  IF rw_einval(offset) \/ read_lut_entry(offset) = 0
        THEN Result("read", dcc, "EINVAL", 0, offset, count, NoXfer)
        ELSE IF ~ct2_dcc_may_change_dev_state(dcc)
                /\ rrange_contains_R(offset, count)
        THEN Result("read", dcc, "EACCES", 0, offset, count, NoXfer)
        ELSE IF efault
        THEN Result("read", dcc, "EFAULT", 0, offset, count, xfer)
        ELSE Result("read", dcc, "OK", bcount, offset, count, xfer)

\* ct2_read_fifo(): outcome
ct2_read_fifo_result(dcc, offset, count, efault) ==
    LET xfer == [kind |-> "fifo", spc |-> 0, off |-> 0,
                 n |-> count \div CT2_REG_SIZE]
    IN  IF ~ct2_dcc_may_change_dev_state(dcc)
        THEN Result("read_fifo", dcc, "EACCES", 0, offset, count, NoXfer)
        ELSE IF efault
        THEN Result("read_fifo", dcc, "EFAULT", 0, offset, count, xfer)
        ELSE Result("read_fifo", dcc, "OK", count, offset, count, xfer)

\* ct2_write(): wlut[woff]
write_lut_entry(offset) ==
    LET o == offset_to_baddr_lut_off(offset) IN dev_lut(o.spc, "wr")[o.off]

\* variant: the number of registers asked for, whatever the table says
write_rcount_requested(offset, count) ==
    U8(count \div CT2_REG_SIZE)

\* ct2_write(): rcount
write_rcount(offset, count) ==
    min_t_u8(write_lut_entry(offset), count \div CT2_REG_SIZE)

\* ct2_write(): outcome; efault is the outcome of copy_from_user()
ct2_write_result(dcc, offset, count, efault) ==
    LET o == offset_to_baddr_lut_off(offset)
        rcount == write_rcount(offset, count)
        bcount == rcount * CT2_REG_SIZE
        xfer == [kind |-> "writev", spc |-> o.spc, off |-> o.off, n |-> rcount]
    IN  IF rw_einval(offset) \/ write_lut_entry(offset) = 0
        THEN Result("write", dcc, "EINVAL", 0, offset, count, NoXfer)
        ELSE IF ~ct2_dcc_may_change_dev_state(dcc)
        THEN Result("write", dcc, "EACCES", 0, offset, count, NoXfer)
        ELSE IF efault
        THEN Result("write", dcc, "EFAULT", 0, offset, count, NoXfer)
        ELSE Result("write", dcc, "OK", bcount, offset, count, xfer)

\* ct2_read(): the request fails before the critical section is entered
ct2_read_einval(s, offset, count) ==
    /\ s \in Elems(dccs_list)
    /\ dccs_mutex # s
    /\ ~read_is_fifo(offset, count)
    /\ rw_einval(offset) \/ read_lut_entry(offset) = 0
    /\ last' = ct2_read_result(s, offset, count, FALSE)
    /\ UNCHANGED << dev_consts, intr_vars, arb_vars, dccs_list, dccs_mutex >>

\* ct2_read(): the critical section and the copy to userland
ct2_read(s, offset, count, efault) ==
    /\ dccs_mutex = s
    /\ s \in Elems(dccs_list)
    /\ ~read_is_fifo(offset, count)
    /\ ~(rw_einval(offset) \/ read_lut_entry(offset) = 0)
    /\ dccs_mutex' = NULL
    /\ last' = ct2_read_result(s, offset, count, efault)
    /\ UNCHANGED << dev_consts, intr_vars, arb_vars, dccs_list >>

\* ct2_read_fifo(): the critical section and the copy to userland
ct2_read_fifo(s, offset, count, efault) ==
    /\ dccs_mutex = s
    /\ s \in Elems(dccs_list)
    /\ read_is_fifo(offset, count)
    /\ dccs_mutex' = NULL
    /\ last' = ct2_read_fifo_result(s, offset, count, efault)
    /\ UNCHANGED << dev_consts, intr_vars, arb_vars, dccs_list >>

\* ct2_write(): the request fails before the critical section is entered
ct2_write_einval(s, offset, count) ==
    /\ s \in Elems(dccs_list)
    /\ dccs_mutex # s
    /\ rw_einval(offset) \/ write_lut_entry(offset) = 0
    /\ last' = ct2_write_result(s, offset, count, FALSE)
    /\ UNCHANGED << dev_consts, intr_vars, arb_vars, dccs_list, dccs_mutex >>

\* ct2_write(): the copy from userland and the critical section
ct2_write(s, offset, count, efault) ==
    /\ dccs_mutex = s
    /\ s \in Elems(dccs_list)
    /\ ~(rw_einval(offset) \/ write_lut_entry(offset) = 0)
    /\ dccs_mutex' = NULL
    /\ last' = ct2_write_result(s, offset, count, efault)
    /\ UNCHANGED << dev_consts, intr_vars, arb_vars, dccs_list >>


(***************************************************************************)
(* The requests the sessions issue.                                        *)
(***************************************************************************)
\* byte offset of a register in the RW map
rw_offset(spc, reg, idx) ==
    ((IF spc = 1 THEN CT2_RW_R1_OFF ELSE CT2_RW_R2_OFF)
        + ct2_reg_offset(spc, reg, idx)) * CT2_REG_SIZE

\* offsets of the requests: a register that can be read and written and is
\* followed by ctrl_fifo_dma, the hole after rd_latch_cmpt[11], and the
\* start of the FIFO window
ReqOffsets ==
    { rw_offset(1, "cmd_dma", 0),
      rw_offset(1, "rd_latch_cmpt", 11) + CT2_REG_SIZE,
      CT2_RW_FIFO_START }

\* byte counts of the requests: one and three registers
ReqCounts == { CT2_REG_SIZE, 3 * CT2_REG_SIZE }

\* mmap(2) arguments
MapOffsets == { 0, PAGE_SIZE }
MapLengths == { PAGE_SIZE, 2 * PAGE_SIZE }

\* what request_irq() may return
IrqResults == { "OK", "ENOMEM" }

\* operations on the arbiter and on the list of DCCs
ArbOps == { "open", "close", "qxa", "lxa" }

ArbNext ==
    \/ \E t \in Sessions : dccs_lock(t)
    \/ \E s \in Sessions, nonblock \in BOOLEAN : ct2_open_nomem(s, nonblock)
    \/ \E s \in Sessions : ct2_open(s)
    \/ \E s \in Sessions : ct2_close(s)
    \/ \E s \in Sessions : grant_exclusive_access(s)
    \/ \E s \in Sessions : revoke_exclusive_access(s)

MapNext ==
    \/ \E s \in Sessions, wx \in BOOLEAN, o \in MapOffsets, l \in MapLengths :
            ct2_mmap_einval(s, wx, o, l)
    \/ \E s \in Sessions, o \in MapOffsets, l \in MapLengths :
            ct2_mmap_eagain(s, o, l)
    \/ \E s \in Sessions, o \in MapOffsets, l \in MapLengths, ok \in BOOLEAN :
            ct2_mmap(s, o, l, ok)
    \/ \E t \in Sessions : ct2_vma_ops_open(t)
    \/ \E t \in Sessions : ct2_vma_ops_close(t)

IntrNext ==
    \/ \E s \in Sessions : ct2_ioctl_devrst(s)
    \/ \E s \in Sessions, arg \in 0 .. MaxInqLen, ok \in BOOLEAN,
          nonblock \in BOOLEAN, irq_rv \in IrqResults :
            enable_device_interrupts(s, arg, ok, nonblock, irq_rv)
    \/ \E s \in Sessions : disable_device_interrupts(s)

RWNext ==
    \/ \E s \in Sessions, o \in ReqOffsets, c \in ReqCounts :
            ct2_read_einval(s, o, c)
    \/ \E s \in Sessions, o \in ReqOffsets, c \in ReqCounts, f \in BOOLEAN :
            ct2_read(s, o, c, f)
    \/ \E s \in Sessions, o \in ReqOffsets, c \in ReqCounts, f \in BOOLEAN :
            ct2_read_fifo(s, o, c, f)
    \/ \E s \in Sessions, o \in ReqOffsets, c \in ReqCounts :
            ct2_write_einval(s, o, c)
    \/ \E s \in Sessions, o \in ReqOffsets, c \in ReqCounts, f \in BOOLEAN :
            ct2_write(s, o, c, f)

\* the sessions, the arbiter and the mappings of the FIFO
Next ==
    \/ ArbNext
    \/ MapNext
    \/ \E s \in Sessions, op \in ArbOps : dccs_lock_interrupted(s, op)

Spec == Init /\ [][Next]_vars

\* the sessions, the arbiter and the operations that change the Device state
DevNext ==
    \/ ArbNext
    \/ IntrNext
    \/ RWNext
    \/ \E s \in Sessions, op \in InterruptibleOps : dccs_lock_interrupted(s, op)

\* a P201 with or without an interrupt pin, the module parameters have
\* their default values, no session
DevSpecInit ==
    /\ variant = "p201"
    /\ enable_p201_test_reg = FALSE
    /\ req_intrs \in BOOLEAN
    /\ DevInit
    /\ dccs_list = << >>
    /\ reg_lut_init = reg_lut_init_done

SpecDev == DevSpecInit /\ [][DevNext]_vars

\* byte counts of the requests, a count of more registers than the RW map
\* has (257) included
LongReqCounts == ReqCounts \cup {(2 * CT2_RW_RMAP_LEN + 1) * CT2_REG_SIZE}

\* register transfers by sessions that stay open, on a Device of either type
RWSpecNext ==
    \/ \E t \in Sessions : dccs_lock(t)
    \/ \E s \in Sessions : grant_exclusive_access(s)
    \/ \E s \in Sessions : revoke_exclusive_access(s)
    \/ \E s \in Sessions, o \in ReqOffsets, c \in LongReqCounts, f \in BOOLEAN :
            ct2_read(s, o, c, f)
    \/ \E s \in Sessions, o \in ReqOffsets, c \in LongReqCounts, f \in BOOLEAN :
            ct2_write(s, o, c, f)

\* a Device of either type with an interrupt pin, every session has
\* opened it
RWSpecInit ==
    /\ variant \in Variants
    /\ enable_p201_test_reg \in BOOLEAN
    /\ req_intrs = TRUE
    /\ DevInit
    /\ dccs_list = [i \in 1 .. MaxSessions |-> i]
    /\ reg_lut_init = reg_lut_init_done

SpecRW == RWSpecInit /\ [][RWSpecNext]_vars

\* byte counts of the requests: one register, and more registers (5) than
\* the run cmd_dma .. source_it[1] has
BoundsReqCounts == { CT2_REG_SIZE, 5 * CT2_REG_SIZE }

\* register transfers at defined and at undefined offsets and in the FIFO
\* window, by sessions that stay open
BoundsNext ==
    \/ \E t \in Sessions : dccs_lock(t)
    \/ \E s \in Sessions : grant_exclusive_access(s)
    \/ \E s \in Sessions : revoke_exclusive_access(s)
    \/ \E s \in Sessions, o \in ReqOffsets, c \in BoundsReqCounts :
            ct2_read_einval(s, o, c)
    \/ \E s \in Sessions, o \in ReqOffsets, c \in BoundsReqCounts :
            ct2_read(s, o, c, FALSE)
    \/ \E s \in Sessions, o \in ReqOffsets, c \in BoundsReqCounts :
            ct2_read_fifo(s, o, c, FALSE)
    \/ \E s \in Sessions, o \in ReqOffsets, c \in BoundsReqCounts :
            ct2_write_einval(s, o, c)
    \/ \E s \in Sessions, o \in ReqOffsets, c \in BoundsReqCounts :
            ct2_write(s, o, c, FALSE)

SpecBounds == RWSpecInit /\ [][BoundsNext]_vars

\* ct2_reg_interval_size(spc, lower, upper): the registers from lower to
\* upper inclusive
ct2_reg_interval_size(spc, lower, lidx, upper, uidx) ==
    ct2_reg_offset(spc, upper, uidx) - ct2_reg_offset(spc, lower, lidx) + 1

\* ct2_read(): the number of elements of rbuf
CT2_LONGEST_RREAD_RANGE ==
    ct2_reg_interval_size(2, "sel_filtre_input", 0, "conf_cmpt", 11)

\* ct2_write(): the number of elements of wbuf
CT2_LONGEST_RWRITE_RANGE ==
    ct2_reg_interval_size(2, "sel_filtre_input", 0, "compare_cmpt", 11)

\* offsets at which the longest ranges of the tables start
XferBufOffsets ==
    { rw_offset(1, "rd_cmpt", 0),
      rw_offset(2, "sel_filtre_input", 0),
      rw_offset(2, "compare_cmpt", 0) }

\* byte counts: the sizes of the two transfer buffers, one register more,
\* and a count whose number of registers is above 255
XferBufCounts ==
    { CT2_REG_SIZE * n :
        n \in { CT2_LONGEST_RREAD_RANGE, CT2_LONGEST_RREAD_RANGE + 1,
                CT2_LONGEST_RWRITE_RANGE, CT2_LONGEST_RWRITE_RANGE + 1,
                256 + CT2_LONGEST_RWRITE_RANGE + 1 } }

\* reads and writes at the starts of the longest ranges
XferBufNext ==
    \/ \E t \in Sessions : dccs_lock(t)
    \/ \E s \in Sessions : grant_exclusive_access(s)
    \/ \E s \in Sessions, o \in XferBufOffsets, c \in XferBufCounts :
            ct2_read(s, o, c, FALSE)
    \/ \E s \in Sessions, o \in XferBufOffsets, c \in XferBufCounts :
            ct2_write(s, o, c, FALSE)

SpecXferBuf == RWSpecInit /\ [][XferBufNext]_vars

\* the values that a read of ctrl_it returns: no bit set, a bit that the
\* mask of the P201 removes (bit 10), the edge bit of channel 1 (bit 0)
\* and the end-of-count bit of counter 1 (bit 12)
CtrlItValues == { 0, 2^10, 2^0, 2^12 }

\* the two sessions that take part in the interrupt notification
InmSessions == { 1, 2 }

\* the session that enables and disables the interrupts
InmController == 1

\* capacity of the notification FIFO that the session asks for
InmInqLen == 2

\* sessions that open and close, acknowledge and poll, one of them also
\* enables and disables the interrupts, while the Device raises interrupts
InmNext ==
    \/ \E t \in InmSessions : dccs_lock(t)
    \/ \E s \in InmSessions : ct2_open(s)
    \/ \E s \in InmSessions : ct2_close(s)
    \/ enable_device_interrupts(InmController, InmInqLen, TRUE, FALSE, "OK")
    \/ disable_device_interrupts(InmController)
    \/ \E reg \in CtrlItValues : process_device_interrupts(reg)
    \/ distribute_interrupt_notifications
    \/ ct2_inm_fifo_fillpoint
    \/ ct2_receive_in
    \/ ct2_dccs_sr_worker
    \/ ct2_dccs_for_each_post_in
    \/ \E s \in InmSessions, f \in BOOLEAN : acknowledge_interrupt(s, f)
    \/ \E s \in InmSessions : ct2_poll(s)

SpecInm == Init /\ [][InmNext]_vars

\* one session that opens, closes, enables and disables the interrupts
\* while the Device raises interrupts and the bottom half runs
IrqNext ==
    \/ dccs_lock(InmController)
    \/ ct2_open(InmController)
    \/ ct2_close(InmController)
    \/ enable_device_interrupts(InmController, InmInqLen, TRUE, FALSE, "OK")
    \/ disable_device_interrupts(InmController)
    \/ \E reg \in CtrlItValues : process_device_interrupts(reg)
    \/ distribute_interrupt_notifications
    \/ ct2_inm_fifo_fillpoint
    \/ ct2_receive_in
    \/ ct2_dccs_sr_worker
    \/ ct2_dccs_for_each_post_in

SpecIrq == Init /\ [][IrqNext]_vars

\* the steps of distribute_interrupt_notifications() that wait for nothing
inm_task_step ==
    \/ distribute_interrupt_notifications
    \/ ct2_inm_fifo_fillpoint
    \/ ct2_receive_in
    \/ ct2_dccs_for_each_post_in

\* the end of the critical section of the session that holds dev->dccs.mutex
dccs_unlock_step ==
    \/ ct2_open(InmController)
    \/ ct2_close(InmController)
    \/ enable_device_interrupts(InmController, InmInqLen, TRUE, FALSE, "OK")
    \/ disable_device_interrupts(InmController)

\* SpecIrq with the scheduling of the kernel: the workqueue runs a pending
\* work item and the worker goes on (weak fairness), a critical section of
\* dev->dccs.mutex ends (weak fairness), and mutex_lock() of the worker is
\* served when the mutex is released again and again (strong fairness, the
\* hand-off of the mutex to its first waiter)
SpecIrqFair ==
    /\ SpecIrq
    /\ WF_vars(inm_task_step)
    /\ WF_vars(dccs_unlock_step)
    /\ SF_vars(ct2_dccs_sr_worker)

\* ct2_probe(): the attach of the driver to a PCI device.  fail is the
\* step that fails or "none", class what device_create() returns if it is
\* not NULL, junk the indeterminate content of dev->fifo_buffer.
ct2_probe(fail, class, junk) ==
    LET p == probe_returned(probe.iomem, fail, class, junk)
    IN
    /\ probe.pc = "unbound"
    /\ probe' = p
    /\ init_status' = IF p.pc = "bound" THEN "DEV_INIT_DEV_LIST_ADD"
                                        ELSE "none"
    /\ UNCHANGED << variant, enable_p201_test_reg, req_intrs, reg_lut_init,
                    regs, edint, inm_mutex, file_f_pos, irq_requested, inm_fifo,
                    dcc_flags,
                    inm_vars, arb_vars,
                    dccs_list, dccs_mutex, last >>

\* ct2_remove(): the detach of the driver from the PCI device it is bound
\* to (driver unbind, device removal or module exit).  The DCCs of the
\* open sessions are not looked at.
ct2_remove ==
    /\ probe.pc = "bound"
    /\ probe' = [probe EXCEPT
                    !.pc = "removed",
                    !.drvdata = FALSE,
                    !.at = init_status,
                    !.rel = ct2_remove_switch(init_status_index(init_status),
                                              probe.dev, probe.iomem)]
    /\ init_status' = "none"
    /\ IF init_status = "DEV_INIT_REQ_INTR"
       THEN /\ irq_requested' = FALSE
            /\ inm_fifo' = fifo_truncate
       ELSE UNCHANGED << irq_requested, inm_fifo >>
    /\ UNCHANGED << variant, enable_p201_test_reg, req_intrs, reg_lut_init,
                    regs, edint, inm_mutex, file_f_pos, dcc_flags, inm_vars, arb_vars,
                    dccs_list,
                    dccs_mutex,
                    last >>

\* the session that uses the Device while it is bound
ProbeSession == 1

\* the mapping of the FIFO that the session asks for
ProbeMapLength == PAGE_SIZE

\* the character device exists from cdev_add() to cdev_del(): the file
\* operations reach the Device
cdev_added == probe.pc = "bound"

\* discovery, use by one session and removal of one Device
ProbeNext ==
    \/ \E fail \in ProbeFailures(probe.iomem) \cup { "none" },
          class \in ClassDevices, junk \in JunkPointers :
            ct2_probe(fail, class, junk)
    \/ ct2_remove
    \/ cdev_added /\ dccs_lock(ProbeSession)
    \/ cdev_added /\ ct2_open(ProbeSession)
    \/ cdev_added /\ ct2_close(ProbeSession)
    \/ cdev_added /\ grant_exclusive_access(ProbeSession)
    \/ cdev_added /\ revoke_exclusive_access(ProbeSession)
    \/ cdev_added /\ ct2_mmap(ProbeSession, 0, ProbeMapLength, TRUE)
    \/ cdev_added /\ ct2_vma_ops_close(ProbeSession)
    \/ cdev_added /\ enable_device_interrupts(ProbeSession, InmInqLen, TRUE,
                                              FALSE, "OK")
    \/ cdev_added /\ disable_device_interrupts(ProbeSession)

\* a PCI device of either build of the driver, before ct2_probe()
ProbeInit ==
    /\ variant = "p201"
    /\ enable_p201_test_reg = FALSE
    /\ req_intrs = TRUE
    /\ reg_lut_init = reg_lut_init_done
    /\ probe \in { probe_unbound(iomem) : iomem \in BOOLEAN }
    /\ regs = ct2_regs_mutex_init
    /\ edint = edint_none
    /\ inm_mutex = ct2_inm_mutex_init
    /\ file_f_pos = [s \in Sessions |-> 0]
    /\ init_status = "none"
    /\ irq_requested = FALSE
    /\ inm_fifo = fifo_truncate
    /\ dcc_flags = [s \in Sessions |-> FALSE]
    /\ dcc_in = [s \in Sessions |-> ct2_dcc_new]
    /\ inm_task = [pending |-> FALSE, pc |-> "idle", notice |-> 0,
                   received |-> FALSE]
    /\ irq = [count |-> 0, notice |-> 0, rv |-> "IRQ_NONE"]
    /\ blessed = NULL
    /\ blessed_fmc = 0
    /\ vmas = 0
    /\ dccs_list = << >>
    /\ dccs_mutex = NULL
    /\ last = Ret("none", NULL, "OK")

SpecProbe == ProbeInit /\ [][ProbeNext]_vars

\* the commands on the interrupt notification queue of a DCC
InqCommands == { "CT2_IOC_AINQ", "CT2_IOC_DINQ", "CT2_IOC_RINQ", "CT2_IOC_FINQ" }

\* ct2_ioctl(): what it returns for a command on the queue.  attach_inq(),
\* drain_inq() and flush_inq() return -ENOSYS into rv; detach_inq()
\* returns nothing and rv keeps its initial 0.
ct2_ioctl_inq_rv(cmd) ==
    IF cmd = "CT2_IOC_DINQ" THEN "OK" ELSE "ENOSYS"

\* ct2_ioctl(): CT2_IOC_AINQ, CT2_IOC_DINQ, CT2_IOC_RINQ, CT2_IOC_FINQ
ct2_ioctl_inq(s, cmd) ==
    /\ s \in Elems(dccs_list)
    /\ dccs_mutex # s
    /\ last' = Ret(cmd, s, ct2_ioctl_inq_rv(cmd))
    /\ UNCHANGED << dev_consts, intr_vars, arb_vars, dccs_list, dccs_mutex >>

\* the sessions, the arbiter and the commands on the queues
InqNext ==
    \/ ArbNext
    \/ \E s \in Sessions, cmd \in InqCommands : ct2_ioctl_inq(s, cmd)

SpecInq == Init /\ [][InqNext]_vars

\* <linux/fs.h>: SEEK_SET, SEEK_CUR, SEEK_END
SEEK_SET == 0
SEEK_CUR == 1
SEEK_END == 2

\* ct2_llseek(): hfl_in_interval_ix(loff_t, off, 0, CT2_RW_RMAP_LEN)
ct2_llseek_in_rmap(off) ==
    hfl_in_interval_ix(off, 0, CT2_RW_RMAP_LEN)

\* ct2_llseek(): the position that the request names, f_pos being
\* file->f_pos
ct2_llseek_off(offset, whence, f_pos) ==
    CASE whence = SEEK_SET -> offset
      [] whence = SEEK_CUR -> f_pos + offset
      [] whence = SEEK_END -> CT2_RW_RMAP_LEN + offset
      [] OTHER -> 0

\* ct2_llseek(): the outcome; the position asked for is kept in off, whence
\* in cnt.  file->f_pos is not assigned.
ct2_llseek_result(s, offset, whence, f_pos) ==
    LET off == ct2_llseek_off(offset, whence, f_pos)
    IN  IF whence \notin { SEEK_SET, SEEK_CUR, SEEK_END }
        THEN Result("llseek", s, "EINVAL", 0, off, whence, NoXfer)
        ELSE IF ~ct2_llseek_in_rmap(off)
        THEN Result("llseek", s, "EINVAL", 0, off, whence, NoXfer)
        ELSE Result("llseek", s, "OK", off, off, whence, NoXfer)

\* ct2_llseek()
ct2_llseek(s, offset, whence, f_pos) ==
    /\ s \in Elems(dccs_list)
    /\ dccs_mutex # s
    /\ last' = ct2_llseek_result(s, offset, whence, f_pos)
    /\ UNCHANGED << dev_consts, intr_vars, arb_vars, dccs_list, dccs_mutex >>

\* displacements: around both ends of the RW map in registers and in bytes
SeekOffsets ==
    { 0 - CT2_RW_RMAP_LEN - 1, 0 - CT2_RW_RMAP_LEN, 0 - 1, 0, 1,
      CT2_RW_RMAP_LEN - 1, CT2_RW_RMAP_LEN,
      CT2_RW_R2_OFF * CT2_REG_SIZE,
      (CT2_RW_RMAP_LEN - 1) * CT2_REG_SIZE, CT2_RW_RMAP_LEN * CT2_REG_SIZE }

\* origins: the three that exist and one that does not
SeekWhences == { SEEK_SET, SEEK_CUR, SEEK_END, 3 }

\* file->f_pos: of a new open file description, and after a read(2) of
\* the register at offset 0, which advances it by the bytes transferred
SeekPositions == { 0, CT2_REG_SIZE }

\* the sessions, the arbiter and lseek(2)
SeekNext ==
    \/ ArbNext
    \/ \E s \in Sessions, offset \in SeekOffsets, whence \in SeekWhences,
          f_pos \in SeekPositions : ct2_llseek(s, offset, whence, f_pos)

SpecSeek == Init /\ [][SeekNext]_vars

\* everything but file->f_pos that is fixed once the Device is probed
f_pos_consts == << variant, enable_p201_test_reg, req_intrs, reg_lut_init,
                   probe, regs, edint, inm_mutex >>

\* ct2_llseek(): file->f_pos after the call; the function has no
\* assignment to it
ct2_llseek_f_pos(res, f_pos) == f_pos

\* lseek(2) on the open file of session s: ct2_llseek(file, offset, whence)
ct2_llseek_file(s, offset, whence) ==
    LET res == ct2_llseek_result(s, offset, whence, file_f_pos[s])
    IN  /\ s \in Elems(dccs_list)
        /\ dccs_mutex # s
        /\ last' = res
        /\ file_f_pos' = [file_f_pos EXCEPT
                            ![s] = ct2_llseek_f_pos(res, @)]
        /\ UNCHANGED << f_pos_consts, intr_vars, arb_vars, dccs_list,
                        dccs_mutex >>

\* read(2) on the open file of session s: ct2_read(file, buf, count,
\* &file->f_pos); a request that fails the checks made before the critical
\* section does not take dev->dccs.mutex; (*offset) += bcount
ct2_read_file(s, count) ==
    LET res == ct2_read_result(s, file_f_pos[s], count, FALSE)
    IN  /\ s \in Elems(dccs_list)
        /\ ~read_is_fifo(file_f_pos[s], count)
        /\ IF rw_einval(file_f_pos[s]) \/ read_lut_entry(file_f_pos[s]) = 0
           THEN dccs_mutex # s /\ UNCHANGED dccs_mutex
           ELSE dccs_mutex = s /\ dccs_mutex' = NULL
        /\ last' = res
        /\ file_f_pos' = [file_f_pos EXCEPT ![s] = @ + res.rv]
        /\ UNCHANGED << f_pos_consts, intr_vars, arb_vars, dccs_list >>

\* write(2) on the open file of session s: ct2_write(file, buf, count,
\* &file->f_pos); (*offset) += bcount
ct2_write_file(s, count) ==
    LET res == ct2_write_result(s, file_f_pos[s], count, FALSE)
    IN  /\ s \in Elems(dccs_list)
        /\ IF rw_einval(file_f_pos[s]) \/ write_lut_entry(file_f_pos[s]) = 0
           THEN dccs_mutex # s /\ UNCHANGED dccs_mutex
           ELSE dccs_mutex = s /\ dccs_mutex' = NULL
        /\ last' = res
        /\ file_f_pos' = [file_f_pos EXCEPT ![s] = @ + res.rv]
        /\ UNCHANGED << f_pos_consts, intr_vars, arb_vars, dccs_list >>

\* byte counts of the transfers at the file position
FilePosCounts == { CT2_REG_SIZE, 2 * CT2_REG_SIZE }

\* sessions that open the Device once and then seek, read and write at the
\* file position
FilePosNext ==
    \/ \E t \in Sessions : dccs_lock(t)
    \/ \E s \in Sessions : file_f_pos[s] = 0 /\ ct2_open(s)
    \/ \E s \in Sessions : grant_exclusive_access(s)
    \/ \E s \in Sessions, offset \in SeekOffsets, whence \in SeekWhences :
          ct2_llseek_file(s, offset, whence)
    \/ \E s \in Sessions, count \in FilePosCounts : ct2_read_file(s, count)
    \/ \E s \in Sessions, count \in FilePosCounts : ct2_write_file(s, count)

SpecFilePos == Init /\ [][FilePosNext]_vars

\* the sessions, the arbiter, and the enabling and disabling of the
\* interrupts with every outcome
SubNext ==
    \/ ArbNext
    \/ \E s \in Sessions, arg \in 0 .. MaxInqLen, ok \in BOOLEAN,
          nonblock \in BOOLEAN, rv \in IrqResults :
            enable_device_interrupts(s, arg, ok, nonblock, rv)
    \/ \E s \in Sessions : disable_device_interrupts(s)

SpecSub == DevSpecInit /\ [][SubNext]_vars

\* the file operations that enter a dev->dccs.mutex critical section
SessionOps ==
    InterruptibleOps \cup { "ackint", "mmap", "poll" }

\* how the operation takes dev->dccs.mutex: ct2_dccs_sri / ct2_dccs_swi
\* (mutex_lock_interruptible), ct2_dccs_srt (mutex_trylock) in ct2_mmap(),
\* ct2_dccs_sr (mutex_lock) in ct2_poll()
dccs_lock_primitive(op) ==
    CASE op = "poll" -> "mutex_lock"
      [] op = "mmap" -> "mutex_trylock"
      [] OTHER -> "mutex_lock_interruptible"

\* a signal arrives while operation op of session s sleeps in its lock
\* primitive: mutex_lock_interruptible() returns -EINTR and the operation
\* returns it; mutex_lock() goes on sleeping; mutex_trylock() never sleeps
dccs_wait_cancelled(s, op) ==
    /\ dccs_lock_primitive(op) = "mutex_lock_interruptible"
    /\ dccs_lock_interrupted(s, op)

\* the sessions open, close and poll, and their waits are cancelled
WaitNext ==
    \/ \E t \in Sessions : dccs_lock(t)
    \/ \E s \in Sessions : ct2_open(s)
    \/ \E s \in Sessions : ct2_close(s)
    \/ \E s \in Sessions : ct2_poll(s)
    \/ \E s \in Sessions, op \in SessionOps : dccs_wait_cancelled(s, op)

SpecWait == Init /\ [][WaitNext]_vars

(***************************************************************************)
(* Register transfers in steps: a transfer starts, is in progress and      *)
(* ends.  readv_sync, writev_sync and rrshi run inside dev->regs.mutex, a  *)
(* spinlock taken with spin_lock_irqsave(); reset_device() writes with     *)
(* iowrite32() / memcpy_toio() / outl(), outside of it.                    *)
(***************************************************************************)
\* the context of the interrupt handler
hardirq == 0 - 2

Xfer(kind, by) == [kind |-> kind, by |-> by]

\* variant: spin_lock_irqsave() does not wait
ct2_spin_lock_irqsave_nowait == TRUE

\* ct2_spin_lock_irqsave(): returns once dev->regs.mutex is free
ct2_spin_lock_irqsave == regs.mutex = NULL

\* ct2_regs_s(): the lock is taken and the transfer starts
ct2_regs_s_lock(kind, by) ==
    /\ ct2_spin_lock_irqsave
    /\ regs' = [mutex |-> by, xfers |-> regs.xfers \cup { Xfer(kind, by) }]

\* ct2_regs_s(): the transfer has ended and the lock is released
ct2_regs_s_unlock(kind, by) ==
    /\ Xfer(kind, by) \in regs.xfers
    /\ regs' = [mutex |-> NULL, xfers |-> regs.xfers \ { Xfer(kind, by) }]

\* the thread of session s that owns dev->dccs.mutex is not inside a
\* register transfer
ct2_dccs_cs_idle(s) ==
    \A x \in regs.xfers : x.by # s

regs_consts == << variant, enable_p201_test_reg, req_intrs, reg_lut_init,
                  probe, edint, inm_mutex, file_f_pos >>

\* ct2_read() up to the start of ct2_regs_readv_sync()
ct2_regs_readv_sync_lock(s) ==
    /\ dccs_mutex = s
    /\ s \in Elems(dccs_list)
    /\ ct2_dccs_cs_idle(s)
    /\ ct2_regs_s_lock("readv", s)
    /\ UNCHANGED << regs_consts, intr_vars, arb_vars, dccs_list, dccs_mutex,
                    last >>

\* ct2_read() from the end of ct2_regs_readv_sync()
ct2_regs_readv_sync_unlock(s) ==
    /\ ct2_regs_s_unlock("readv", s)
    /\ dccs_mutex' = NULL
    /\ last' = Ret("read", s, "OK")
    /\ UNCHANGED << regs_consts, intr_vars, arb_vars, dccs_list >>

\* ct2_write() up to the start of ct2_regs_writev_sync()
ct2_regs_writev_sync_lock(s) ==
    /\ dccs_mutex = s
    /\ s \in Elems(dccs_list)
    /\ ct2_dcc_may_change_dev_state(s)
    /\ ct2_dccs_cs_idle(s)
    /\ ct2_regs_s_lock("writev", s)
    /\ UNCHANGED << regs_consts, intr_vars, arb_vars, dccs_list, dccs_mutex,
                    last >>

\* ct2_write() from the end of ct2_regs_writev_sync()
ct2_regs_writev_sync_unlock(s) ==
    /\ ct2_regs_s_unlock("writev", s)
    /\ dccs_mutex' = NULL
    /\ last' = Ret("write", s, "OK")
    /\ UNCHANGED << regs_consts, intr_vars, arb_vars, dccs_list >>

\* ct2_ioctl(), case CT2_IOC_DEVRST, up to the first register write of
\* reset_device(); dev->regs.mutex is not taken
reset_device_enter(s) ==
    /\ dccs_mutex = s
    /\ s \in Elems(dccs_list)
    /\ ct2_dcc_may_change_dev_state(s)
    /\ ~devrst_busy
    /\ ct2_dccs_cs_idle(s)
    /\ regs' = [regs EXCEPT !.xfers = @ \cup { Xfer("reset", s) }]
    /\ UNCHANGED << regs_consts, intr_vars, arb_vars, dccs_list, dccs_mutex,
                    last >>

\* ct2_ioctl(), case CT2_IOC_DEVRST, from the last register write of
\* reset_device()
reset_device_exit(s) ==
    /\ Xfer("reset", s) \in regs.xfers
    /\ regs' = [regs EXCEPT !.xfers = @ \ { Xfer("reset", s) }]
    /\ dccs_mutex' = NULL
    /\ last' = Result("devrst", s, "OK", 0, 0, 0, reset_device)
    /\ UNCHANGED << regs_consts, intr_vars, arb_vars, dccs_list >>

\* process_device_interrupts() up to the start of the read of ctrl_it in
\* ct2_regs_rrshi()
ct2_regs_rrshi_lock ==
    /\ irq_requested
    /\ irq.count < MaxIrqs
    /\ ct2_regs_s_lock("rrshi", hardirq)
    /\ UNCHANGED << regs_consts, intr_vars, arb_vars, dccs_list, dccs_mutex,
                    last >>

\* process_device_interrupts() from the end of the read of ctrl_it, which
\* returns reg
ct2_regs_rrshi_unlock(reg) ==
    /\ ct2_regs_s_unlock("rrshi", hardirq)
    /\ process_device_interrupts_body(reg)
    /\ UNCHANGED << regs_consts, init_status, irq_requested, dcc_flags,
                    dcc_in, arb_vars, dccs_list, dccs_mutex, last >>

\* free_irq() returns when no handler of the line is running
free_irq_synchronized ==
    Xfer("rrshi", hardirq) \notin regs.xfers

\* sessions read, write and reset while the interrupt is requested and
\* released; an operation of session s that is inside a transfer is not
\* at the start of another critical section
RegsNext ==
    \/ \E t \in Sessions : dccs_lock(t)
    \/ \E s \in Sessions : ct2_dccs_cs_idle(s) /\ ct2_open(s)
    \/ \E s \in Sessions : ct2_dccs_cs_idle(s) /\ ct2_close(s)
    \/ \E s \in Sessions :
          /\ ct2_dccs_cs_idle(s)
          /\ enable_device_interrupts(s, InmInqLen, TRUE, FALSE, "OK")
    \/ \E s \in Sessions :
          /\ ct2_dccs_cs_idle(s)
          /\ free_irq_synchronized
          /\ disable_device_interrupts(s)
    \/ \E s \in Sessions : ct2_regs_readv_sync_lock(s)
    \/ \E s \in Sessions : ct2_regs_readv_sync_unlock(s)
    \/ \E s \in Sessions : ct2_regs_writev_sync_lock(s)
    \/ \E s \in Sessions : ct2_regs_writev_sync_unlock(s)
    \/ \E s \in Sessions : reset_device_enter(s)
    \/ \E s \in Sessions : reset_device_exit(s)
    \/ ct2_regs_rrshi_lock
    \/ \E reg \in CtrlItValues : ct2_regs_rrshi_unlock(reg)

SpecRegs == Init /\ [][RegsNext]_vars

\* everything but dev->inm.mutex that is fixed once the Device is probed
inm_consts == << variant, enable_p201_test_reg, req_intrs, reg_lut_init,
                 probe, regs, edint, file_f_pos >>

\* variant: ct2_receive_in() returns with dev->inm.mutex held
ct2_inm_sw_unlock_never == inm_worker

\* ct2_receive_in(): spin_unlock_irqrestore() at the end of ct2_inm_sw()
ct2_inm_sw_unlock == NULL

\* ct2_inm_s(): spin_lock_irqsave() returns once dev->inm.mutex is free
ct2_inm_s_lock(by) ==
    /\ inm_mutex.owner = NULL
    /\ inm_mutex' = [inm_mutex EXCEPT !.owner = by]

\* process_device_interrupts() from the end of the read of ctrl_it to the
\* call of ct2_post_in(), or to its return when no interrupt is left after
\* masking; dev->regs.mutex is released
ct2_regs_rrshi_unlock_isr(reg) ==
    /\ inm_mutex.isr = "none"
    /\ ct2_regs_s_unlock("rrshi", hardirq)
    /\ IF BitAnd(reg, ctrl_it_mask) = 0
       THEN /\ process_device_interrupts_body(reg)
            /\ UNCHANGED inm_mutex
       ELSE /\ inm_mutex' = [inm_mutex EXCEPT !.isr = "post_in", !.reg = reg]
            /\ UNCHANGED << inm_fifo, inm_task, irq >>
    /\ UNCHANGED << variant, enable_p201_test_reg, req_intrs, reg_lut_init,
                    probe, edint, file_f_pos, init_status, irq_requested,
                    dcc_flags, dcc_in, arb_vars, dccs_list, dccs_mutex, last >>

\* ct2_post_in(): ct2_inm_swhi(), dev->inm.mutex is taken
ct2_post_in_lock ==
    /\ inm_mutex.isr = "post_in"
    /\ inm_mutex.owner # hardirq
    /\ ct2_inm_s_lock(hardirq)
    /\ UNCHANGED << inm_consts, intr_vars, arb_vars, dccs_list, dccs_mutex,
                    last >>

\* ct2_post_in(): the notice is appended, dev->inm.mutex is released and the
\* work is scheduled; the interrupt handler returns
ct2_post_in_unlock ==
    /\ inm_mutex.owner = hardirq
    /\ process_device_interrupts_body(inm_mutex.reg)
    /\ inm_mutex' = ct2_inm_mutex_init
    /\ UNCHANGED << inm_consts, init_status, irq_requested, dcc_flags,
                    dcc_in, arb_vars, dccs_list, dccs_mutex, last >>

\* ct2_inm_fifo_fillpoint() and ct2_receive_in() of the worker:
\* dev->inm.mutex is taken
ct2_inm_s_lock_worker ==
    /\ inm_task.pc \in {"fillpoint", "receive"}
    /\ ct2_inm_s_lock(inm_worker)
    /\ UNCHANGED << inm_consts, intr_vars, arb_vars, dccs_list, dccs_mutex,
                    last >>

\* ct2_inm_fifo_fillpoint(): the fill level is read and dev->inm.mutex is
\* released
ct2_inm_sr_unlock ==
    /\ inm_mutex.owner = inm_worker
    /\ ct2_inm_fifo_fillpoint_body
    /\ inm_mutex' = [inm_mutex EXCEPT !.owner = NULL]
    /\ UNCHANGED inm_consts

\* ct2_receive_in(): the notice is consumed and dev->inm.mutex is released
ct2_inm_sw_unlock_worker ==
    /\ inm_mutex.owner = inm_worker
    /\ ct2_receive_in_body
    /\ inm_mutex' = [inm_mutex EXCEPT !.owner = ct2_inm_sw_unlock]
    /\ UNCHANGED inm_consts

\* free_irq() returns when no handler of the line is running
free_irq_synchronized_isr ==
    /\ free_irq_synchronized
    /\ inm_mutex.isr = "none"

\* values of ctrl_it: no interrupt, and the interrupt of counter 1
LocksCtrlItValues == { 0, 2^0 }

\* the steps that go on with an operation that has begun: the end of a
\* critical section of dev->dccs.mutex, the steps of the interrupt handler
\* after its first, and the steps of the worker
LocksProgress ==
    \/ \E s \in InmSessions : ct2_dccs_cs_idle(s) /\ ct2_open(s)
    \/ \E s \in InmSessions : ct2_dccs_cs_idle(s) /\ ct2_close(s)
    \/ /\ ct2_dccs_cs_idle(InmController)
       /\ enable_device_interrupts(InmController, InmInqLen, TRUE, FALSE, "OK")
    \/ /\ ct2_dccs_cs_idle(InmController)
       /\ free_irq_synchronized_isr
       /\ disable_device_interrupts(InmController)
    \/ \E s \in InmSessions : ct2_regs_readv_sync_lock(s)
    \/ \E s \in InmSessions : ct2_regs_readv_sync_unlock(s)
    \/ \E s \in InmSessions : ct2_regs_writev_sync_lock(s)
    \/ \E s \in InmSessions : ct2_regs_writev_sync_unlock(s)
    \/ \E reg \in LocksCtrlItValues : ct2_regs_rrshi_unlock_isr(reg)
    \/ ct2_post_in_lock
    \/ ct2_post_in_unlock
    \/ distribute_interrupt_notifications
    \/ ct2_inm_s_lock_worker
    \/ ct2_inm_sr_unlock
    \/ ct2_inm_sw_unlock_worker
    \/ ct2_dccs_sr_worker
    \/ ct2_dccs_for_each_post_in

\* sessions, the interrupt handler and the worker with each acquisition of
\* dev->dccs.mutex, dev->regs.mutex and dev->inm.mutex as a step of its own
LocksNext ==
    \/ \E t \in InmSessions : dccs_lock(t)
    \/ inm_mutex.isr = "none" /\ ct2_regs_rrshi_lock
    \/ LocksProgress

SpecLocks == Init /\ [][LocksNext]_vars

(***************************************************************************)
(* enable_device_interrupts() in steps: the allocation of the FIFO storage *)
(* before the critical section, the critical section, and the release of   *)
(* what is left in the local variable fbh after it.                        *)
(***************************************************************************)
edint_consts == << variant, enable_p201_test_reg, req_intrs, reg_lut_init,
                   probe, regs, inm_mutex, file_f_pos >>

\* variant: the local variable keeps the pointer to the installed block
ct2_inm_fifo_init_fbh_kept(ptr) == ptr

\* enable_device_interrupts(): "fbh = NULL" after ct2_inm_fifo_init()
ct2_inm_fifo_init_fbh(ptr) == "NULL"

\* fbh = ct2_in_fifo_bhead_new(kmalloc_flags, inq_len), before the
\* critical section; alloc_ok is the outcome of the allocation
ct2_in_fifo_bhead_new(s, arg, nonblock, alloc_ok) ==
    /\ edint.pc \in {"none", "returned"}
    /\ s \in Elems(dccs_list)
    /\ edint' = [pc |-> "allocated", by |-> s, arg |-> arg,
                 nonblock |-> nonblock,
                 ptr |-> IF alloc_ok THEN "fbh" ELSE "NULL",
                 alloc |-> alloc_ok, kept |-> FALSE, deleted |-> 0]
    /\ UNCHANGED << edint_consts, intr_vars, arb_vars, dccs_list, dccs_mutex,
                    last >>

\* ct2_dccs_sri() fails with -EINTR: goto delete_then_done
enable_device_interrupts_eintr(s) ==
    /\ edint.pc = "allocated"
    /\ edint.by = s
    /\ dccs_mutex \notin {NULL, s}
    /\ edint' = [edint EXCEPT !.pc = "delete_then_done"]
    /\ last' = Ret("edint", s, "EINTR")
    /\ UNCHANGED << edint_consts, intr_vars, arb_vars, dccs_list,
                    dccs_mutex >>

\* the critical section of enable_device_interrupts(): the block is
\* installed when the checks (2), (3) and (4) are passed, and removed and
\* deleted by ct2_inm_fifo_reset() when ct2_enable_interrupts() fails
enable_device_interrupts_cs(s, irq_rv) ==
    LET installs == /\ ct2_dcc_may_change_dev_state(s)
                    /\ init_status # "DEV_INIT_REQ_INTR"
                    /\ edint.alloc
        fails == installs /\ (~req_intrs \/ irq_rv # "OK")
    IN
    /\ edint.pc = "allocated"
    /\ edint.by = s
    /\ enable_device_interrupts_body(s, edint.arg, edint.alloc,
                                     edint.nonblock, irq_rv)
    /\ edint' = [edint EXCEPT
                    !.pc = "delete_then_done",
                    !.ptr = IF installs THEN ct2_inm_fifo_init_fbh(@) ELSE @,
                    !.kept = installs /\ ~fails,
                    !.deleted = IF fails THEN @ + 1 ELSE @]
    /\ UNCHANGED << edint_consts, arb_vars, dccs_list >>

\* delete_then_done: ct2_in_fifo_bhead_delete(fbh) if fbh is not NULL, and
\* the return
enable_device_interrupts_done(s) ==
    /\ edint.pc = "delete_then_done"
    /\ edint.by = s
    /\ edint' = [edint EXCEPT
                    !.pc = "returned",
                    !.deleted = IF edint.ptr # "NULL" THEN @ + 1 ELSE @]
    /\ UNCHANGED << edint_consts, intr_vars, arb_vars, dccs_list, dccs_mutex,
                    last >>

\* the file of session s is not inside enable_device_interrupts(), so that
\* it can be released
edint_idle(s) ==
    edint.pc \in {"none", "returned"} \/ edint.by # s

\* one call of enable_device_interrupts() at a time is followed in steps,
\* while the sessions open, close, grant and revoke, enable and disable
EdintNext ==
    \/ \E t \in Sessions : dccs_lock(t)
    \/ \E s \in Sessions : ct2_open(s)
    \/ \E s \in Sessions : edint_idle(s) /\ ct2_close(s)
    \/ \E s \in Sessions : grant_exclusive_access(s)
    \/ \E s \in Sessions : revoke_exclusive_access(s)
    \/ \E s \in Sessions :
            enable_device_interrupts(s, InmInqLen, TRUE, FALSE, "OK")
    \/ \E s \in Sessions : disable_device_interrupts(s)
    \/ \E s \in Sessions, arg \in {0, InmInqLen}, ok \in BOOLEAN :
            ct2_in_fifo_bhead_new(s, arg, FALSE, ok)
    \/ \E s \in Sessions : enable_device_interrupts_eintr(s)
    \/ \E s \in Sessions, irq_rv \in IrqResults :
            enable_device_interrupts_cs(s, irq_rv)
    \/ \E s \in Sessions : enable_device_interrupts_done(s)

SpecEdint == DevSpecInit /\ [][EdintNext]_vars

(***************************************************************************)
(* ct2_receive_in() in steps.  fifo_consume_ne() runs inside               *)
(* dev->inm.mutex; ct2_inm_fifo_init() and ct2_inm_fifo_reset() do not     *)
(* take that lock.                                                         *)
(***************************************************************************)
\* dev->inm.mutex is not held by the bottom half
ct2_inm_s_free ==
    inm_task.pc # "consume"

\* ct2_receive_in(): dev->inm.mutex is taken and fifo_consume_ne() has
\* located the entry at the read end and tested the fillpoint
ct2_receive_in_lock ==
    /\ inm_task.pc = "receive"
    /\ inm_task' = [inm_task EXCEPT !.pc = "consume",
                                    !.received = inm_fifo.fillpoint > 0]
    /\ UNCHANGED << dev_consts, init_status, irq_requested, inm_fifo,
                    dcc_flags, dcc_in, irq, arb_vars, dccs_list, dccs_mutex,
                    last >>

\* ct2_receive_in(): fifo_consume_ne() copies the entry, takes it off the
\* FIFO and the lock is released.  When the storage was removed after the
\* entry had been located, the copy reads storage that was handed to
\* kfree() and fifo_ptr_advance() dereferences container_of(NULL, ...):
\* junk is the value that is read, oops whether the kernel stops the
\* worker.
ct2_receive_in_unlock(junk, oops) ==
    /\ inm_task.pc = "consume"
    /\ IF ~inm_task.received
       THEN /\ inm_task' = [inm_task EXCEPT !.pc = "dccs_sr"]
            /\ UNCHANGED inm_fifo
       ELSE IF inm_fifo.fillpoint > 0
       THEN /\ inm_fifo' = fifo_consume_ne(inm_fifo)
            /\ inm_task' = [inm_task EXCEPT
                                !.notice = fifo_consume_ne_datum(inm_fifo, @),
                                !.pc = "dccs_sr"]
       ELSE /\ inm_task' = [inm_task EXCEPT
                                !.notice = junk,
                                !.pc = IF oops THEN "oops" ELSE "dccs_sr"]
            /\ UNCHANGED inm_fifo
    /\ UNCHANGED << dev_consts, init_status, irq_requested, dcc_flags, dcc_in,
                    irq, arb_vars, dccs_list, dccs_mutex, last >>

\* one session that opens, closes, enables and disables the interrupts
\* while the Device raises interrupts and the bottom half runs, its pop in
\* two steps
PopNext ==
    \/ dccs_lock(InmController)
    \/ ct2_open(InmController)
    \/ ct2_close(InmController)
    \/ enable_device_interrupts(InmController, InmInqLen, TRUE, FALSE, "OK")
    \/ disable_device_interrupts(InmController)
    \/ \E reg \in CtrlItValues :
            ct2_inm_s_free /\ process_device_interrupts(reg)
    \/ distribute_interrupt_notifications
    \/ ct2_inm_s_free /\ ct2_inm_fifo_fillpoint
    \/ ct2_receive_in_lock
    \/ \E junk \in CtrlItValues, oops \in BOOLEAN :
            ct2_receive_in_unlock(junk, oops)
    \/ ct2_dccs_sr_worker
    \/ ct2_dccs_for_each_post_in

SpecPop == Init /\ [][PopNext]_vars


(***************************************************************************)
(* Properties.                                                             *)
(***************************************************************************)
\* the step in which session s leaves the critical section of operation op
CsStep(op, s) ==
    /\ dccs_mutex = s
    /\ dccs_mutex' = NULL
    /\ last'.op = op
    /\ last'.dcc = s

\* the step in which operation op of session s returns without having
\* taken dev->dccs.mutex
EarlyStep(op, s) ==
    /\ dccs_mutex' = dccs_mutex
    /\ last' # last
    /\ last'.op = op
    /\ last'.dcc = s

\* C1: a grant by s that is executed succeeds exactly when no session or s
\* itself holds exclusive access, and then s is the holder (a self-grant
\* changes nothing); otherwise it fails with EACCES and the holder stays.
\* In every state at most one session has exclusive access.
C1_Grant ==
    /\ [](Cardinality({s \in Sessions : ct2_dcc_has_xaccess(s)}) <= 1)
    /\ [][\A s \in Sessions :
            CsStep("qxa", s) =>
                /\ (last'.err = "OK") <=> (blessed \in {NULL, s})
                /\ (blessed \in {NULL, s}) => blessed' = s
                /\ (blessed \notin {NULL, s}) =>
                        last'.err = "EACCES" /\ blessed' = blessed
                /\ blessed_fmc' = blessed_fmc]_vars

\* a grant has been refused because the other session holds exclusive access
C1_Witness ==
    /\ last.op = "qxa"
    /\ last.err = "EACCES"
    /\ blessed \notin {NULL, last.dcc}

\* C2: the mmap count is never negative, and while it is positive a session
\* holds exclusive access.
C2_MapCount ==
    /\ blessed_fmc >= 0
    /\ blessed_fmc > 0 => blessed # NULL

\* a mapping has been removed while another one is still live
C2_Witness ==
    /\ last.op = "vma_close"
    /\ blessed_fmc > 0
    /\ blessed # NULL

\* C3: a revoke by s that is executed is a success that changes nothing when
\* no holder is set, fails with EACCES when another session is the holder,
\* fails with EBUSY when s is the holder and the FIFO is mapped, and
\* otherwise clears the holder.  No revoke clears the holder while the mmap
\* count is positive; a failing revoke changes neither holder nor count.
C3_Revoke ==
    [][\A s \in Sessions :
        CsStep("lxa", s) =>
            /\ blessed = NULL =>
                    last'.err = "OK" /\ blessed' = NULL
            /\ blessed \notin {NULL, s} =>
                    last'.err = "EACCES"
            /\ (blessed = s /\ blessed_fmc > 0) =>
                    last'.err = "EBUSY"
            /\ (blessed = s /\ blessed_fmc = 0) =>
                    last'.err = "OK" /\ blessed' = NULL
            /\ (blessed # NULL /\ blessed' = NULL) => blessed_fmc = 0
            /\ last'.err # "OK" => blessed' = blessed
            /\ blessed_fmc' = blessed_fmc]_vars

\* the holder's revoke has been refused while the FIFO is mapped
C3_Witness ==
    /\ last.op = "lxa"
    /\ last.err = "EBUSY"
    /\ blessed = last.dcc
    /\ blessed_fmc > 0

\* C4 as stated: while A holds exclusive access and has the FIFO mapped
\* once, a revoke by another session B is answered with EBUSY; with the
\* FIFO unmapped B's revoke is answered with EACCES and A's revoke succeeds.
C4_Original ==
    [][\A a, b \in Sessions :
        (a # b /\ blessed = a) =>
            /\ (CsStep("lxa", b) /\ blessed_fmc = 1) => last'.err = "EBUSY"
            /\ (CsStep("lxa", b) /\ blessed_fmc = 0) => last'.err = "EACCES"
            /\ (CsStep("lxa", a) /\ blessed_fmc = 0) =>
                    last'.err = "OK" /\ blessed' = NULL]_vars

\* C4: while A holds exclusive access and has the FIFO mapped once, a
\* revoke by another session B is answered with EACCES and changes nothing,
\* and A's own revoke is answered with EBUSY; with the FIFO unmapped B's
\* revoke is answered with EACCES again, and A's revoke succeeds and clears
\* the holder.
C4_Scenario ==
    [][\A a, b \in Sessions :
        (a # b /\ blessed = a) =>
            /\ (CsStep("lxa", b) /\ blessed_fmc = 1) =>
                    /\ last'.err = "EACCES"
                    /\ blessed' = a
                    /\ blessed_fmc' = 1
            /\ (CsStep("lxa", a) /\ blessed_fmc = 1) =>
                    last'.err = "EBUSY" /\ blessed' = a
            /\ (CsStep("lxa", b) /\ blessed_fmc = 0) => last'.err = "EACCES"
            /\ (CsStep("lxa", a) /\ blessed_fmc = 0) =>
                    last'.err = "OK" /\ blessed' = NULL]_vars

\* B's revoke has been answered while A holds exclusive access and has the
\* FIFO mapped once
C4_Witness ==
    /\ last.op = "lxa"
    /\ last.err = "EACCES"
    /\ blessed \notin {NULL, last.dcc}
    /\ blessed_fmc = 1

\* C5: a close by the holder while the FIFO is mapped is refused with
\* EBUSY, the session stays in the list of DCCs and stays the holder, the
\* mmap count is unchanged.  A close by the holder while the FIFO is not
\* mapped clears the holder and removes the session from the list, and
\* then every other session may change the Device state.
C5_Close ==
    [][\A s \in Sessions :
        (CsStep("close", s) /\ blessed = s) =>
            /\ blessed_fmc' = blessed_fmc
            /\ blessed_fmc > 0 =>
                    /\ last'.err = "EBUSY"
                    /\ dccs_list' = dccs_list
                    /\ s \in Elems(dccs_list')
                    /\ blessed' = s
            /\ blessed_fmc = 0 =>
                    /\ last'.err = "OK"
                    /\ blessed' = NULL
                    /\ s \notin Elems(dccs_list')
                    /\ \A t \in Sessions \ {s} :
                            (ct2_dcc_may_change_dev_state(t))']_vars

\* the holder's close has been refused while the FIFO is mapped
C5_Witness ==
    /\ last.op = "close"
    /\ last.err = "EBUSY"
    /\ blessed = last.dcc
    /\ blessed_fmc > 0
    /\ last.dcc \in Elems(dccs_list)

\* C6: a map request succeeds only if its session is the holder; a request
\* that reaches the holder check while no session or another session is
\* the holder fails with EACCES.  A successful map increments the mmap
\* count by one, an unmap decrements it by one, and a failing map request
\* (EACCES, EINVAL for write/execute or an extent beyond the FIFO, EAGAIN)
\* leaves the count unchanged.
C6_Map ==
    [][\A s \in Sessions :
        /\ (CsStep("mmap", s) /\ last'.err = "OK") =>
                blessed = s /\ blessed_fmc' = blessed_fmc + 1
        /\ (CsStep("mmap", s) /\ blessed # s) => last'.err = "EACCES"
        /\ ((CsStep("mmap", s) \/ EarlyStep("mmap", s)) /\ last'.err # "OK") =>
                blessed_fmc' = blessed_fmc /\ blessed' = blessed
        /\ EarlyStep("mmap", s) => last'.err \in {"EINVAL", "EAGAIN"}
        /\ CsStep("vma_close", s) => blessed_fmc' = blessed_fmc - 1]_vars

\* a map request has been refused while no session holds exclusive access
C6_Witness ==
    /\ last.op = "mmap"
    /\ last.err = "EACCES"
    /\ blessed = NULL
    /\ blessed_fmc = 0

\* operations that change the Device state
StateChangingOps == {"write", "devrst", "edint", "ddint", "read_fifo"}

\* C7: while A holds exclusive access, a register write, Device reset,
\* interrupt enable, interrupt disable or FIFO window read that another
\* session B gets to execute fails with EACCES and changes nothing: no
\* register is transferred, init_status, the interrupt line, the
\* notification FIFO and the subscription flag of every DCC stay as they were.
C7_Gate ==
    [][\A a, b \in Sessions, op \in StateChangingOps :
        (a # b /\ blessed = a /\ CsStep(op, b)) =>
            /\ last'.err = "EACCES"
            /\ last'.xfer = NoXfer
            /\ UNCHANGED << init_status, irq_requested, inm_fifo, dcc_flags,
                            blessed, blessed_fmc, dccs_list >>]_vars

\* B's interrupt disable has been refused while A holds exclusive access
\* and the Device generates interrupts
C7_Witness ==
    /\ last.op = "ddint"
    /\ last.err = "EACCES"
    /\ blessed \notin {NULL, last.dcc}
    /\ init_status = "DEV_INIT_REQ_INTR"

\* byte offsets of all registers of the RW map
AllOffsets == {CT2_REG_SIZE * r : r \in 0 .. (CT2_RW_RMAP_LEN - 1)}

\* byte counts: no register, few registers, the longest ranges and one
\* more, and counts of 255 registers and more
AllCounts ==
    {CT2_REG_SIZE * n : n \in {0, 1, 2, 4, 12, 41, 42, 255, 256, 257}}
        \cup {CT2_REG_SIZE - 1, 2 * CT2_REG_SIZE - 1}

\* offsets in the RW map of the registers whose read changes the Device
\* state: ctrl_fifo_dma, and test_reg on a P201
SideEffectRegs ==
    {CT2_RW_R1_OFF + ctrl_fifo_dma_offset}
        \cup (IF variant = "p201"
              THEN {CT2_RW_R1_OFF + p201_test_reg_offset}
              ELSE {})

\* the request is for a register that the read (write) table defines
ReadDefined(offset) == ~rw_einval(offset) /\ read_lut_entry(offset) # 0
WriteDefined(offset) == ~rw_einval(offset) /\ write_lut_entry(offset) # 0

\* the effective range of a read contains a register of SideEffectRegs
ReadHitsSideEffect(offset, count) ==
    \E r \in SideEffectRegs :
        /\ offset \div CT2_REG_SIZE <= r
        /\ r < (offset \div CT2_REG_SIZE) + read_rcount(offset, count)

\* C8: a register read at a defined offset by a session that may not change
\* the Device state fails with EACCES if and only if its effective range
\* contains ctrl_fifo_dma or, on a P201, test_reg; a read whose effective
\* range contains neither succeeds for every session, whoever is the holder.
C8_ReadGate ==
    \A offset \in AllOffsets :
        ReadDefined(offset) =>
          \A dcc \in Elems(dccs_list), count \in AllCounts :
            LET res == ct2_read_result(dcc, offset, count, FALSE)
                hit == ReadHitsSideEffect(offset, count)
            IN  /\ ~ct2_dcc_may_change_dev_state(dcc) =>
                        ((res.err = "EACCES") <=> hit)
                /\ ~hit => res.err = "OK"
                /\ res.err \in {"OK", "EACCES"}

\* a session that may not change the Device state has read a range that
\* contains ctrl_fifo_dma and has been refused
C8_Witness ==
    /\ last.op = "read"
    /\ last.err = "EACCES"
    /\ blessed \notin {NULL, last.dcc}
    /\ ReadHitsSideEffect(last.off, last.cnt)

\* C9: when init_ct2_register_range_luts() has defined a table, for every
\* offset r of the register file: table[r] > 0 iff r lies in one of the
\* ranges declared for the table, then table[r] = last - r + 1, the length
\* of the maximal run of defined registers that starts at r, and
\* table[r] = 0 for every other r.
C9_Lut ==
    (reg_lut_init.k > 0 /\ ~reg_lut_init.busy
        /\ reg_lut_init.n = Len(lut_init_ranges)) =>
    LET id == lut_order[reg_lut_init.k]
        lut == reg_lut_init.lut
        spans == {<< range_lower(id[2], lut_init_ranges[i]),
                     range_upper(id[2], lut_init_ranges[i]) >> :
                        i \in 1 .. Len(lut_init_ranges)}
        InSpan(r) == \E sp \in spans : sp[1] <= r /\ r <= sp[2]
        Defined(r) == r \in LutIndex /\ InSpan(r)
        Run(r) == CHOOSE m \in 0 .. ct2_spc_size(id[2]) :
                    /\ \A j \in 0 .. (m - 1) : Defined(r + j)
                    /\ ~Defined(r + m)
    IN  /\ DOMAIN lut = 0 .. (ct2_spc_size(id[2]) - 1)
        /\ \A r \in DOMAIN lut :
            /\ (lut[r] > 0) <=> InSpan(r)
            /\ \A sp \in spans :
                    (sp[1] <= r /\ r <= sp[2]) => lut[r] = sp[2] - r + 1
            /\ lut[r] = Run(r)
        /\ lut = ct2_reg_lut[id[1], id[2], id[3], enable_p201_test_reg]

\* the read table of I/O Space 1 of the P201 is defined, test_reg included
C9_Witness ==
    /\ reg_lut_init.k > 0
    /\ lut_order[reg_lut_init.k] = <<"p201", 1, "rd">>
    /\ ~reg_lut_init.busy
    /\ reg_lut_init.n = Len(lut_init_ranges)
    /\ enable_p201_test_reg
    /\ reg_lut_init.lut[p201_test_reg_offset] = 1

\* C10 as stated: a permitted read or write at a defined offset transfers
\* min(requested, table[offset]) registers and returns that number; when
\* requested > table[offset] > 0 it returns exactly table[offset], and no
\* register beyond the run is touched.
C10_Truncation ==
    (last.op \in {"read", "write"} /\ last.err = "OK") =>
        LET requested == last.cnt \div CT2_REG_SIZE
            table == IF last.op = "read"
                     THEN read_lut_entry(last.off)
                     ELSE write_lut_entry(last.off)
        IN  /\ last.xfer.n = Min(requested, table)
            /\ last.rv = last.xfer.n * CT2_REG_SIZE
            /\ requested > table => last.rv = table * CT2_REG_SIZE

\* the byte offset lies outside the RW map [0, R1_LEN + R2_LEN)
OutsideMap(offset) ==
    offset < 0 \/ offset >= (CT2_RW_R1_LEN + CT2_RW_R2_LEN) * CT2_REG_SIZE

\* the result of a request that fails with a bounds error
BoundsError(res) == res.err = "EINVAL" /\ res.rv = 0 /\ res.xfer = NoXfer

\* byte offsets of the RW map, and offsets beyond it: the first one, the
\* second register of the FIFO window, the last register of the FIFO
\* window, the offsets after the window and an offset that wraps around to
\* register 0 of the map when it is cast to uint8_t
BoundsOffsets ==
    AllOffsets \cup
        { CT2_RW_RMAP_LEN * CT2_REG_SIZE,
          CT2_RW_FIFO_START + CT2_REG_SIZE,
          CT2_RW_FIFO_END - CT2_REG_SIZE,
          CT2_RW_FIFO_END,
          CT2_RW_FIFO_END + CT2_REG_SIZE,
          (256 + CT2_RW_FIFO_OFF + CT2_RW_FIFO_LEN) * CT2_REG_SIZE }

ctrl_it_offset == ct2_reg_offset(1, "ctrl_it", 0)

\* the transfer xfer reads or writes register r of I/O Space spc
Touches(xfer, spc, r) ==
    /\ xfer.kind \in {"readv", "writev"}
    /\ xfer.spc = spc
    /\ xfer.off <= r
    /\ r < xfer.off + xfer.n

\* C12: for both Device types the entry of ctrl_it is 0 in the read and the
\* write table of I/O Space 1, and no read or write of a session, whatever
\* its offset, its length and the session's rights, transfers a range of
\* registers that contains ctrl_it.
C12_CtrlIt ==
    /\ \A v \in Variants, rw \in {"rd", "wr"}, flag \in BOOLEAN :
            ct2_reg_lut[v, 1, rw, flag][ctrl_it_offset] = 0
    /\ dev_lut(1, "rd")[ctrl_it_offset] = 0
    /\ dev_lut(1, "wr")[ctrl_it_offset] = 0
    /\ \A offset \in BoundsOffsets, count \in AllCounts :
        \A dcc \in Elems(dccs_list) :
            /\ ~Touches(ct2_read_result(dcc, offset, count, FALSE).xfer,
                        1, ctrl_it_offset)
            /\ ~Touches(ct2_write_result(dcc, offset, count, FALSE).xfer,
                        1, ctrl_it_offset)
    /\ ~Touches(last.xfer, 1, ctrl_it_offset)

\* a read of five registers at cmd_dma has been cut after source_it[1], the
\* register before ctrl_it
C12_Witness ==
    /\ last.op = "read"
    /\ last.err = "OK"
    /\ last.off = rw_offset(1, "cmd_dma", 0)
    /\ last.cnt = 5 * CT2_REG_SIZE
    /\ last.xfer.off + last.xfer.n = ctrl_it_offset
    /\ last.rv < last.cnt

\* the capacity that an argument of CT2_IOC_EDINT stands for
RequestedCapacity(arg) == IF arg = 0 THEN inq_length ELSE arg

\* C13 as stated: when the operation completed last is a successful
\* enable-interrupts with capacity c, a further enable with capacity d by a
\* session that may change the Device state returns success if d = c and
\* EBUSY if d # c, and changes nothing in either case, for every c >= 1.
C13_Idempotence ==
    [][\A s \in Sessions :
        (/\ CsStep("edint", s)
         /\ ct2_dcc_may_change_dev_state(s)
         /\ init_status = "DEV_INIT_REQ_INTR"
         /\ last.op = "edint"
         /\ last.err = "OK")
            => /\ UNCHANGED intr_vars
               /\ last'.err = IF RequestedCapacity(last'.cnt)
                                    = RequestedCapacity(last.cnt)
                               THEN "OK" ELSE "EBUSY"]_vars

\* C14: a Device reset requested while interrupts are enabled is refused
\* and writes no register: with EBUSY if the session may change the Device
\* state, with EACCES otherwise; a reset requested by a session that may
\* change the Device state while interrupts are disabled succeeds and
\* writes the registers; the registers are never written by a reset while
\* the interrupt line is claimed, and a reset changes no interrupt state.
C14_Reset ==
    [][\A s \in Sessions :
        CsStep("devrst", s) =>
            /\ init_status = "DEV_INIT_REQ_INTR" =>
                    /\ last'.err = IF ct2_dcc_may_change_dev_state(s)
                                   THEN "EBUSY" ELSE "EACCES"
                    /\ last'.xfer = NoXfer
            /\ (init_status # "DEV_INIT_REQ_INTR"
                    /\ ct2_dcc_may_change_dev_state(s)) =>
                    /\ last'.err = "OK"
                    /\ last'.xfer = reset_device
            /\ last'.xfer = reset_device => ~irq_requested /\ ~irq_requested'
            /\ UNCHANGED intr_vars]_vars

\* C14 as stated: every reset requested while interrupts are enabled is
\* refused with EBUSY and writes no register.
C14_Original ==
    [][\A s \in Sessions :
        (CsStep("devrst", s) /\ init_status = "DEV_INIT_REQ_INTR") =>
            /\ last'.err = "EBUSY"
            /\ last'.xfer = NoXfer]_vars

\* the session that holds exclusive access has asked for a reset while the
\* interrupt line is claimed and has been refused with EBUSY
C14_Witness ==
    /\ last.op = "devrst"
    /\ last.err = "EBUSY"
    /\ blessed = last.dcc
    /\ init_status = "DEV_INIT_REQ_INTR"
    /\ irq_requested

\* ct2_poll() reports POLLHUP for the DCC
PollHup(rv) == BitAnd(rv, POLLHUP) # 0

\* ct2_poll() reports POLLIN | POLLRDNORM for the DCC
PollIn(rv) == BitAnd(rv, POLLIN + POLLRDNORM) = POLLIN + POLLRDNORM

\* C15: a disable-interrupts by a session that may change the Device state
\* succeeds; if interrupts are enabled it releases the interrupt line,
\* truncates the notification FIFO, sets init_status back to
\* DEV_INIT_DEV_LIST_ADD and clears the subscribed flag of every DCC in the
\* list, so that ct2_poll() reports POLLHUP for each of them, then and for
\* as long as interrupts stay disabled; if interrupts are already disabled
\* it changes nothing.
C15_Disable ==
    [][/\ \A s \in Sessions :
            (CsStep("ddint", s) /\ ct2_dcc_may_change_dev_state(s)) =>
                /\ last'.err = "OK"
                /\ IF init_status = "DEV_INIT_REQ_INTR"
                   THEN /\ ~irq_requested'
                        /\ inm_fifo' = fifo_truncate
                        /\ init_status' = "DEV_INIT_DEV_LIST_ADD"
                        /\ dccs_list' = dccs_list
                        /\ \A d \in Elems(dccs_list) :
                                /\ ~dcc_flags'[d]
                                /\ PollHup(ct2_poll_rv(d)')
                   ELSE UNCHANGED << intr_vars, arb_vars, dccs_list >>
       /\ \A s \in Sessions :
            (CsStep("poll", s) /\ init_status # "DEV_INIT_REQ_INTR") =>
                PollHup(last'.rv)]_vars

\* interrupts have been disabled while two sessions were open and the work
\* was about to receive a notification: the FIFO is truncated, and a
\* session has since polled and got POLLHUP
C15_Witness ==
    /\ last.op = "poll"
    /\ PollHup(last.rv)
    /\ Len(dccs_list) = 2
    /\ init_status = "DEV_INIT_DEV_LIST_ADD"
    /\ ~irq_requested
    /\ inm_task.pc = "receive"
    /\ inm_fifo = fifo_truncate

\* the step in which the work delivers its notice to the DCCs in the list
FanOutStep ==
    /\ inm_task.pc = "post_in"
    /\ inm_task'.pc = "fillpoint"
    /\ dccs_mutex = inm_worker
    /\ dccs_mutex' = NULL

\* C16 as stated: when the work fans a notification M out, the accumulated
\* bits of every DCC that is in the list, hence of every session that was
\* open when M was pushed and has not closed, contain every bit of M
\* afterwards, and the DCC of no other session is changed; a session that
\* has opened after the last delivery (its IN object is as ct2_dcc_new()
\* made it) receives only a notification that the work has just taken from
\* the FIFO, never one that was delivered before.
C16_FanOut ==
    [][FanOutStep =>
        /\ \A d \in Elems(dccs_list) :
                BitAnd(dcc_in'[d].ctrl_it, inm_task.notice) = inm_task.notice
        /\ \A d \in Sessions \ Elems(dccs_list) : dcc_in'[d] = dcc_in[d]
        /\ \A d \in Elems(dccs_list) :
                (dcc_in[d] = ct2_dcc_new /\ ~inm_task.received) =>
                    dcc_in'[d].ctrl_it = 0]_vars

\* C17 as stated: the work ORs a notification only into the DCCs that are
\* subscribed (CT2_DCC_INM_FLAGS_RCVS_INTR set) when it fans out; the
\* accumulated bits of a DCC that is not subscribed are not changed by the
\* work, also not by a notification received before a disable completed.
C17_Subscribed ==
    [][FanOutStep =>
        \A d \in Sessions :
            ~dcc_flags[d] => dcc_in'[d].ctrl_it = dcc_in[d].ctrl_it]_vars

\* C18: a successful acknowledge of a DCC returns the accumulated bits of
\* the DCC and resets them to 0 in one step, and touches no other DCC; an
\* acknowledge that fails changes nothing; a fan-out ORs the notice into
\* the accumulated bits of the DCCs in the list; and no other step changes
\* the accumulated bits of a session that stays open.  Hence the bits that
\* an acknowledge returns are the OR of the notices fanned out to the DCC
\* since its previous successful acknowledge or its open, and every bit
\* fanned out is either returned by an acknowledge or still accumulated.
C18_Acknowledge ==
    [][/\ \A s \in Sessions :
            CsStep("ackint", s) =>
                IF last'.err = "OK"
                THEN /\ last'.xfer.kind = "in"
                     /\ last'.xfer.ctrl_it = dcc_in[s].ctrl_it
                     /\ dcc_in'[s].ctrl_it = 0
                     /\ \A d \in Sessions \ {s} : dcc_in'[d] = dcc_in[d]
                ELSE dcc_in' = dcc_in
       /\ FanOutStep =>
            \A d \in Elems(dccs_list) :
                dcc_in'[d].ctrl_it
                    = BitOr(dcc_in[d].ctrl_it, inm_task.notice)
       /\ (~FanOutStep /\ \A s \in Sessions : ~CsStep("ackint", s)) =>
            \A d \in Elems(dccs_list) \cap Elems(dccs_list') :
                dcc_in'[d] = dcc_in[d]
       /\ \A d \in Elems(dccs_list') \ Elems(dccs_list) :
                dcc_in'[d].ctrl_it = 0]_vars

\* two notifications with different bits have been fanned out to two
\* sessions; one of them has acknowledged and got both bits, its
\* accumulated bits are 0 again, the other one still has both bits
C18_Witness ==
    /\ last.op = "ackint"
    /\ last.err = "OK"
    /\ last.xfer.ctrl_it = 2^0 + 2^12
    /\ dcc_in[last.dcc].ctrl_it = 0
    /\ \E d \in Elems(dccs_list) \ {last.dcc} :
            dcc_in[d].ctrl_it = 2^0 + 2^12

\* C19: whenever an open session polls, ct2_poll() reports
\* POLLIN | POLLRDNORM if and only if the accumulated bits of its DCC are
\* not 0, and POLLHUP if and only if its DCC is not subscribed, whatever the
\* other indication is; the poll changes nothing.
C19_Poll ==
    [][\A s \in Sessions :
        CsStep("poll", s) =>
            /\ s \in Elems(dccs_list)
            /\ last'.err = "OK"
            /\ PollIn(last'.rv) <=> dcc_in[s].ctrl_it # 0
            /\ BitAnd(last'.rv, POLLIN + POLLRDNORM) \in {0, POLLIN + POLLRDNORM}
            /\ PollHup(last'.rv) <=> ~dcc_flags[s]
            /\ UNCHANGED << intr_vars, arb_vars, dccs_list >>]_vars

\* a session whose DCC accumulated bits before interrupts were disabled
\* polls after the disable: both POLLIN | POLLRDNORM and POLLHUP are reported
C19_Witness ==
    /\ last.op = "poll"
    /\ last.rv = POLLIN + POLLRDNORM + POLLHUP
    /\ init_status = "DEV_INIT_DEV_LIST_ADD"
    /\ dcc_in[last.dcc].ctrl_it # 0
    /\ ~dcc_flags[last.dcc]

\* the entries of the notification FIFO from the read end to the write end
inm_fifo_entries(fifo) ==
    [i \in 1 .. fifo.fillpoint |->
        fifo.ea[((fifo.r + i - 1) % (fifo.max_index + 1)) + 1]]

\* a call of the interrupt handler that posts a notice
PostInStep ==
    /\ irq'.count = irq.count + 1
    /\ irq'.rv = "IRQ_HANDLED"

\* a call of ct2_receive_in() in the bottom half
ReceiveInStep ==
    /\ inm_task.pc = "receive"
    /\ inm_task'.pc = "dccs_sr"

TopHalfStep ==
    irq'.count = irq.count + 1

\* C21: a call of the interrupt handler returns IRQ_HANDLED iff the value
\* of ctrl_it masked with the variant's mask is not zero and IRQ_NONE
\* otherwise; with a masked value of zero it leaves the FIFO and the work
\* as they are; with another value the work is scheduled, also when the
\* FIFO is full and stays as it is.
C21_TopHalf ==
    [][ TopHalfStep =>
          /\ \E reg \in CtrlItValues : irq'.notice = BitAnd(reg, ctrl_it_mask)
          /\ (irq'.rv = "IRQ_HANDLED") <=> (irq'.notice # 0)
          /\ (irq'.rv = "IRQ_NONE") <=> (irq'.notice = 0)
          /\ irq'.notice = 0 =>
                /\ inm_fifo' = inm_fifo
                /\ inm_task' = inm_task
          /\ irq'.notice # 0 =>
                /\ inm_task'.pending
                /\ inm_fifo.fillpoint = inm_fifo.capacity =>
                      inm_fifo' = inm_fifo
      ]_vars

\* the handler has returned IRQ_HANDLED for a notice that is not in the
\* full FIFO, and the work is scheduled while the bottom half is idle
C21_Witness ==
    /\ irq.rv = "IRQ_HANDLED"
    /\ inm_fifo.capacity > 0
    /\ inm_fifo.fillpoint = inm_fifo.capacity
    /\ \A i \in 1 .. inm_fifo.fillpoint :
          inm_fifo_entries(inm_fifo)[i] # irq.notice
    /\ inm_task.pending
    /\ inm_task.pc = "idle"

\* ct2_remove() has run, from ct2_probe() after a failure or on its own
TeardownStep ==
    /\ probe.pc \in { "unbound", "bound" }
    /\ probe'.pc \in { "failed", "removed" }

\* what enable_device_interrupts() acquired and did not give back: the
\* entry reservoir of the notification FIFO, then the interrupt line
IntrAcquired ==
    (IF inm_fifo.capacity > 0 THEN << "inm_fifo" >> ELSE << >>)
        \o (IF irq_requested THEN << "irq" >> ELSE << >>)

\* the resources held when ct2_remove() starts, in the order of acquisition
TeardownAcquired == probe'.acq \o IntrAcquired

\* the releases of ct2_remove() that are of resources held
TeardownReleased ==
    SelectSeq(probe'.rel, LAMBDA r : r \in Elems(TeardownAcquired))

\* C22: whenever ct2_remove() runs, after a failure of any step of
\* ct2_probe() or to remove a Device that is bound, it starts at the
\* recorded init_status and releases the resources that were acquired in
\* the reverse of the order of their acquisition, each once; afterwards no
\* resource is held, the interrupt line and the FIFO reservoir included.
C22_Teardown ==
    [][ TeardownStep =>
          /\ TeardownReleased = Reverse(TeardownAcquired)
          /\ probe.pc = "bound" => probe'.at = init_status
          /\ ~irq_requested'
          /\ inm_fifo'.capacity = 0
          /\ ~probe'.drvdata
          /\ init_status' = "none"
      ]_vars

\* check_cub() failed in a build that maps the I/O ports: ten resources
\* were acquired, the pages of the FIFO buffer last, and released in
\* reverse order
C22_Witness ==
    /\ probe.pc = "failed"
    /\ probe.iomem
    /\ probe.at = "DEV_INIT_FIFO_REGION"
    /\ Len(probe.acq) = 10
    /\ probe.acq[10] = "fifo_buffer"
    /\ probe.rel = Reverse(probe.acq)

\* C23: after a failed ct2_probe(), ct2_remove() has not released a
\* resource of a stage that was not obtained although the stage is
\* recorded: it has freed the pages of the FIFO buffer, unmapped the FIFO
\* or unmapped a register file only if ct2_probe() had obtained them.
C23_OnlyAcquired ==
    probe.pc = "failed" =>
        \A r \in { "iomap_r1", "iomap_r2", "iomap_fifo", "fifo_buffer" } :
            r \in Elems(probe.rel) => r \in Elems(probe.acq)

\* the resources that a complete ct2_probe() acquires
ProbeResources ==
    probe_acquired(probe_calls(probe.iomem), "device")

\* C24: ct2_probe() returns success only if every step succeeded, and a
\* failure (a value other than 0) whenever a step failed, after ct2_remove()
\* has run.
C24_AttachFailure ==
    /\ probe.pc = "bound" => probe.acq = ProbeResources
    /\ probe.pc = "failed" =>
          /\ probe.rv # "OK"
          /\ ~probe.drvdata

\* ct2_remove() of a Device that is bound
RemoveStep ==
    /\ probe.pc = "bound"
    /\ probe'.pc = "removed"

\* C25: ct2_remove() frees the Device only when no DCC is in the list of
\* DCCs, no DCC has exclusive access and the FIFO is not mapped.
C25_Destroyed ==
    [][ RemoveStep =>
          /\ dccs_list = << >>
          /\ blessed = NULL
          /\ blessed_fmc = 0
      ]_vars

\* C26: each of the commands CT2_IOC_AINQ, CT2_IOC_DINQ, CT2_IOC_RINQ and
\* CT2_IOC_FINQ fails with ENOSYS for every session in every state and
\* changes nothing.
C26_NotImplemented ==
    [][ \A s \in Sessions, cmd \in InqCommands :
          EarlyStep(cmd, s) =>
              /\ last'.err = "ENOSYS"
              /\ UNCHANGED << dev_consts, intr_vars, arb_vars, dccs_list,
                              dccs_mutex >>
      ]_vars

\* C27: a seek with origin SEEK_SET, SEEK_CUR or SEEK_END returns on
\* success the position asked for, which lies in [0, CT2_RW_RMAP_LEN), and
\* this interval is meant in the units of the offsets of read and write:
\* the seek succeeds exactly for the positions that read and write accept
\* as inside the RW map.
C27_Seek ==
    [][ \A s \in Sessions :
          (EarlyStep("llseek", s)
              /\ last'.cnt \in { SEEK_SET, SEEK_CUR, SEEK_END }) =>
              /\ last'.err = "OK" =>
                    /\ last'.rv = last'.off
                    /\ hfl_in_interval_ix(last'.rv, 0, CT2_RW_RMAP_LEN)
              /\ (last'.err = "OK") <=> ~rw_einval(last'.off)
      ]_vars

\* C28: a DCC that ct2_open() adds to the list receives interrupts iff
\* init_status is DEV_INIT_REQ_INTR at that moment; whenever dev->dccs.mutex
\* is free, every DCC in the list receives interrupts iff init_status is
\* DEV_INIT_REQ_INTR.
C28_Inherit ==
    /\ [](dccs_mutex = NULL =>
            \A s \in Elems(dccs_list) :
                dcc_flags[s] <=> (init_status = "DEV_INIT_REQ_INTR"))
    /\ [][ \A s \in Sessions :
             (CsStep("open", s) /\ last'.err = "OK") =>
                 /\ s \in Elems(dccs_list')
                 /\ dcc_flags'[s] <=> (init_status = "DEV_INIT_REQ_INTR")
         ]_vars

\* a session has opened the Device while interrupts were enabled and
\* another session was open: both receive interrupts
C28_Witness ==
    /\ last.op = "open"
    /\ last.err = "OK"
    /\ dccs_mutex = NULL
    /\ init_status = "DEV_INIT_REQ_INTR"
    /\ Len(dccs_list) = 2
    /\ dccs_list[2] = last.dcc
    /\ dcc_flags[dccs_list[1]]
    /\ dcc_flags[dccs_list[2]]

\* C29: whenever another thread owns dev->dccs.mutex, every operation of
\* a session that waits for the mutex (open, close, read, write, reset,
\* enable, disable, acknowledge, grant, revoke, poll; mmap does not wait)
\* can be cancelled: it can return EINTR, and that step changes nothing but
\* the outcome reported.
C29_Cancellable ==
    \A s \in Sessions, op \in SessionOps :
        ( /\ dccs_mutex \notin { NULL, s }
          /\ dccs_lock_primitive(op) # "mutex_trylock"
          /\ (op = "open") <=> (s \notin Elems(dccs_list)) )
        => ENABLED dccs_wait_cancelled(s, op)

\* C30: at no time are two register transfers in progress together on the
\* Device, where a transfer is the register run read of a session, the
\* register run write of a session, the register writes of a Device reset
\* or the interrupt handler's read of ctrl_it.
C30_Exclusive ==
    Cardinality(regs.xfers) <= 1

\* a write of one session is in progress while the interrupt is requested,
\* the handler has run before and a second session is open
C30_Witness ==
    /\ \E x \in regs.xfers : x.kind = "writev"
    /\ irq_requested
    /\ irq.count > 0
    /\ Len(dccs_list) > 1

\* C31: a register transfer that starts at offset o of the RW map, in
\* registers, is checked against the table of register file 1 at o and
\* accesses file 1 from o on when o < CT2_RW_R1_LEN, and is checked against
\* the table of register file 2 at o - CT2_RW_R1_LEN and accesses file 2
\* from there on otherwise; the run it transfers ends inside that file.
\* Requests of 1, 42 and 257 registers are looked at.
C31_FileOfOffset ==
    \A offset \in AllOffsets, rw \in {"rd", "wr"} :
        \A dcc \in Elems(dccs_list), count \in {CT2_REG_SIZE * n : n \in {1, 42, 257}} :
            LET o == offset \div CT2_REG_SIZE
                spc == IF o < CT2_RW_R1_LEN THEN 1 ELSE 2
                off == IF o < CT2_RW_R1_LEN THEN o ELSE o - CT2_RW_R1_LEN
                res == IF rw = "rd"
                       THEN ct2_read_result(dcc, offset, count, FALSE)
                       ELSE ct2_write_result(dcc, offset, count, FALSE)
            IN  /\ (res.err = "EINVAL") <=> (dev_lut(spc, rw)[off] = 0)
                /\ res.err = "OK" =>
                      /\ res.xfer.spc = spc
                      /\ res.xfer.off = off
                      /\ res.xfer.n <= dev_lut(spc, rw)[off]
                      /\ res.xfer.off + res.xfer.n <= ct2_spc_size(spc)

\* a read of three registers that starts at cmd_dma in register file 1 has
\* been cut at the end of its run
C31_Witness ==
    /\ last.op = "read"
    /\ last.err = "OK"
    /\ last.off = rw_offset(1, "cmd_dma", 0)
    /\ last.xfer.spc = 1
    /\ last.xfer.off = ct2_reg_offset(1, "cmd_dma", 0)
    /\ last.xfer.n < last.cnt \div CT2_REG_SIZE

\* C32: an enable by a session that may change the Device state, made
\* while interrupts are disabled, either succeeds or leaves the Device as
\* it was: the FIFO has no storage (capacity 0), init_status stays
\* DEV_INIT_DEV_LIST_ADD, the interrupt is not requested and no DCC
\* receives interrupts; on a Device without interrupt pin it never
\* succeeds, and the error is the one of ct2_enable_interrupts() unless the
\* allocation of the storage has failed before.
C32_EnableFailure ==
    [][\A s \in Sessions :
        (/\ CsStep("edint", s)
         /\ ct2_dcc_may_change_dev_state(s)
         /\ init_status # "DEV_INIT_REQ_INTR")
            => /\ ~req_intrs => last'.err \in {"ENXIO", "ENOMEM", "EAGAIN"}
               /\ last'.err \in {"OK", "ENXIO", "ENOMEM", "EAGAIN"}
               /\ last'.err # "OK" =>
                    /\ inm_fifo' = inm_fifo
                    /\ inm_fifo'.capacity = 0
                    /\ inm_fifo'.ea = << >>
                    /\ init_status' = "DEV_INIT_DEV_LIST_ADD"
                    /\ ~irq_requested'
                    /\ dcc_flags' = dcc_flags
                    /\ \A d \in Elems(dccs_list') : ~dcc_flags'[d]
                    /\ UNCHANGED << inm_vars, arb_vars, dccs_list >>]_vars

\* on a Device without interrupt pin an enable has failed with ENXIO while
\* two sessions were open
C32_Witness ==
    /\ last.op = "edint"
    /\ last.err = "ENXIO"
    /\ Len(dccs_list) = 2
    /\ inm_fifo = fifo_truncate
    /\ init_status = "DEV_INIT_DEV_LIST_ADD"

\* C33: when a call of enable_device_interrupts() has returned, whatever
\* its path (EINTR, EACCES, interrupts already enabled, failed allocation,
\* failure of ct2_enable_interrupts(), success), the block it allocated
\* either is the storage of the FIFO and has not been deleted, or is not
\* the storage of the FIFO and has been deleted exactly once; without
\* allocation nothing is installed and nothing is deleted.  A block is
\* kept only by the step that sets init_status to DEV_INIT_REQ_INTR.
C33_Storage ==
    /\ [](edint.pc = "returned" =>
            IF edint.alloc
            THEN \/ edint.kept /\ edint.deleted = 0
                 \/ ~edint.kept /\ edint.deleted = 1
            ELSE ~edint.kept /\ edint.deleted = 0)
    /\ [][(edint.pc = "allocated" /\ edint'.kept) =>
            /\ init_status # "DEV_INIT_REQ_INTR"
            /\ init_status' = "DEV_INIT_REQ_INTR"
            /\ inm_fifo.capacity = 0
            /\ inm_fifo'.capacity > 0
            /\ last'.err = "OK"]_vars

\* a call has returned ENXIO: its block was installed, removed and deleted
C33_Witness ==
    /\ edint.pc = "returned"
    /\ edint.alloc
    /\ ~edint.kept
    /\ edint.deleted = 1
    /\ last.op = "edint"
    /\ last.dcc = edint.by
    /\ last.err = "ENXIO"

\* C34: the storage of the notification FIFO is not removed and not
\* installed while the bottom half is inside its pop of the FIFO.
C34_Serialised ==
    [][(inm_fifo'.capacity # inm_fifo.capacity) =>
            inm_task.pc # "consume"]_vars

\* C35: while the Device is bound, init_status is DEV_INIT_DEV_LIST_ADD or
\* DEV_INIT_REQ_INTR; whenever dev->dccs.mutex is free, init_status is
\* DEV_INIT_REQ_INTR iff the interrupt is requested iff the notification
\* FIFO has storage (capacity > 0); init_status changes only in the
\* critical section of an enable or of a disable.
C35_Stage ==
    /\ [](init_status \in {"DEV_INIT_DEV_LIST_ADD", "DEV_INIT_REQ_INTR"})
    /\ [](dccs_mutex = NULL =>
            /\ (init_status = "DEV_INIT_REQ_INTR") <=> irq_requested
            /\ irq_requested <=> (inm_fifo.capacity > 0))
    /\ [][init_status' # init_status =>
            \E s \in Sessions :
                CsStep("edint", s) \/ CsStep("ddint", s)]_vars

\* interrupts are enabled and a session has written a register since:
\* the interrupt is requested and the FIFO has storage
C35_Witness ==
    /\ dccs_mutex = NULL
    /\ last.op = "write"
    /\ last.err = "OK"
    /\ init_status = "DEV_INIT_REQ_INTR"
    /\ irq_requested
    /\ inm_fifo.capacity > 0

\* C36: in every state dev->dccs.blessed is NULL or a DCC of the list of
\* the Device, and a close that takes a DCC off the list leaves
\* dev->dccs.blessed on a DCC other than that one.
C36_HolderOpen ==
    /\ [](blessed # NULL => blessed \in Elems(dccs_list))
    /\ [][\A s \in Sessions :
            (CsStep("close", s) /\ s \notin Elems(dccs_list')) =>
                blessed' # s]_vars

\* the holder has unmapped the FIFO and closed while another session stays
\* open: there is no holder
C36_Witness ==
    /\ last.op = "close"
    /\ last.err = "OK"
    /\ blessed = NULL
    /\ blessed_fmc = 0
    /\ vmas = 0
    /\ Len(dccs_list) = 1
    /\ last.dcc \notin Elems(dccs_list)

C38_DeadlockFree ==
    /\ regs.mutex # NULL => inm_mutex.owner # regs.mutex
    /\ dccs_mutex # hardirq
    /\ inm_task.pc \in {"dccs_sr", "post_in"} => inm_mutex.owner # inm_worker
    /\ dccs_mutex = inm_worker => inm_mutex.owner # inm_worker
    /\ (\/ dccs_mutex # NULL
        \/ regs.mutex # NULL
        \/ inm_mutex.owner # NULL
        \/ inm_mutex.isr # "none"
        \/ inm_task.pending
        \/ inm_task.pc # "idle") => ENABLED LocksProgress

\* a session is in disable_device_interrupts() and waits in free_irq() for
\* the interrupt handler, which waits for dev->inm.mutex, which the worker
\* holds for its pop
C38_Witness ==
    /\ dccs_mutex = InmController
    /\ init_status = "DEV_INIT_REQ_INTR"
    /\ inm_mutex.isr = "post_in"
    /\ inm_mutex.owner = inm_worker
    /\ inm_task.pc = "receive"
    /\ regs.mutex = NULL

\* C39: a seek that succeeds leaves file->f_pos at the position it returns,
\* and a seek that fails leaves file->f_pos as it was.
C39_SeekSetsPosition ==
    [][\A s \in Sessions :
            (last'.op = "llseek" /\ last'.dcc = s /\ last' # last) =>
                file_f_pos'[s] = IF last'.err = "OK" THEN last'.rv
                                 ELSE file_f_pos[s]]_vars

\* C40: rbuf has 26 elements and wbuf has 41; on a Device of either type,
\* no entry of a read table is above the size of rbuf and none of a write
\* table above the size of wbuf; the rcount of a read at any offset is at
\* most the size of rbuf and that of a write at most the size of wbuf; and
\* a transfer that was made fitted its buffer.
C40_BufferFits ==
    /\ CT2_LONGEST_RREAD_RANGE = 26
    /\ CT2_LONGEST_RWRITE_RANGE = 41
    /\ \A offset \in AllOffsets :
            /\ read_lut_entry(offset) <= CT2_LONGEST_RREAD_RANGE
            /\ write_lut_entry(offset) <= CT2_LONGEST_RWRITE_RANGE
            /\ \A count \in XferBufCounts :
                    /\ read_rcount(offset, count) <= CT2_LONGEST_RREAD_RANGE
                    /\ write_rcount(offset, count) <= CT2_LONGEST_RWRITE_RANGE
    /\ (last.op = "read" /\ last.err = "OK") =>
            last.xfer.n <= CT2_LONGEST_RREAD_RANGE
    /\ (last.op = "write" /\ last.err = "OK") =>
            last.xfer.n <= CT2_LONGEST_RWRITE_RANGE

\* a read of 27 registers at sel_filtre_input[0] of a C208 has filled rbuf
C40_Witness ==
    /\ variant = "c208"
    /\ last.op = "read"
    /\ last.err = "OK"
    /\ last.off = rw_offset(2, "sel_filtre_input", 0)
    /\ last.cnt = (CT2_LONGEST_RREAD_RANGE + 1) * CT2_REG_SIZE
    /\ last.xfer.n = CT2_LONGEST_RREAD_RANGE

=============================================================================
